---- MODULE Spec2Model ----
(***************************************************************************)
(* A model of the rate-limited request pipeline of the Questrade wrapper:  *)
(* QuestradeAPI/RateLimiter.py (the limiter) and QuestradeAPI/             *)
(* CustomWrapper.py (authenticate, parse_rate_limit_headers and           *)
(* _make_request).                                                         *)
(*                                                                         *)
(* Time is counted in ticks of half a second: OneSecond ticks make the 1.0 *)
(* of RateLimiter.py line 116.  The per-second and per-hour limits and the *)
(* length of the hour are scaled down so that a full window, and a window  *)
(* whose oldest entry has expired, are both reached within MaxTime ticks.  *)
(***************************************************************************)
EXTENDS Integers, Sequences, FiniteSets, TLC

\* ---------------------------------------------------------------- bounds
MaxTime == 3            \* the clock stops at this tick
MaxCallTime == 2        \* and at this one while a single caller is followed
SecondLimit == 2        \* per-second limit of the ACCOUNT category (30 in the source)
MaxRetriesCap == 1      \* max_retries is configured as 0 or as MaxRetriesCap
MaxAuth == 3            \* the provider issues at most this many token generations
MaxClock == 3           \* datetime.now() stops at this reading, in half days
MaxRows == 2            \* rows the candles table holds at most
MaxPath == 3            \* segments of a path handed to get_category_for_endpoint

\* ------------------------------------------------------------- constants
OneSecond == 2          \* 1.0 s in ticks
OneHour == 2 * OneSecond \* 3600.0 s, scaled to two seconds
OneDay == 2             \* timedelta(days=1), in half days

ACCOUNT == "account"
MARKET == "market"
ApiCategory == {ACCOUNT, MARKET}

\* RATE_LIMITS[category] = (requests per second, requests per hour)
RATE_LIMITS(category) ==
    IF category = ACCOUNT
    THEN <<SecondLimit, SecondLimit + 1>>
    ELSE <<SecondLimit - 1, SecondLimit>>

\* the paths dispatched, as their '/'-separated segments ("" before a leading '/')
Endpoints == { <<"v1", "time">>, <<"", "v1", "markets", "quotes">> }

\* str.lstrip('/')
RECURSIVE lstrip(_)
lstrip(path) ==
    IF path # <<>> /\ Head(path) = "" THEN lstrip(Tail(path)) ELSE path

\* what may follow a name within one segment of a path
Tails == {"", "x"}

\* startswith comparing whole segments
StartsWithV1_segment(path, name) ==
    Len(path) >= 2 /\ path[1] = "v1" /\ path[2] = name

\* str.startswith('v1/<name>'): the first segment is v1 and the second
\* begins with the name
StartsWithV1(path, name) ==
    Len(path) >= 2 /\ path[1] = "v1" /\ \E tail \in Tails : path[2] = name \o tail

\* RateLimiter.get_category_for_endpoint
get_category_for_endpoint(path) ==
    LET stripped == lstrip(path) IN
    IF \/ StartsWithV1(stripped, "markets")
       \/ StartsWithV1(stripped, "symbols")
       \/ (StartsWithV1(stripped, "symbols") /\ \E i \in 3..Len(stripped) : stripped[i] = "options")
    THEN MARKET
    ELSE ACCOUNT

Max(a, b) == IF a >= b THEN a ELSE b

VARIABLES
    endpoint,        \* the path this run's calls are made to
    now,             \* time.time(), in ticks
    second_history,  \* _request_history[category]['second']
    hour_history,    \* _request_history[category]['hour']
    remaining,       \* _remaining[category]
    reset_time,      \* _reset_time[category]
    waited,          \* the result of the last direct wait_if_needed call, or NoCall
    max_retries,     \* QuestradeAPI.max_retries
    enforce_rate_limit, \* QuestradeAPI.enforce_rate_limit
    session,         \* refresh_token, api_server, access_token, token_type, expires_in
    token_file,      \* the file at token_path
    provider,        \* the refresh token the OAuth provider accepts next
    pc,              \* where each thread's _make_request stands
    method,          \* the method argument of the call
    retry_count,     \* the retry_count argument of the innermost _make_request
    wait_time,       \* the duration handed to time.sleep
    wake,            \* when that sleep ends
    current_time,    \* record_request's reading of the clock
    response,        \* the last response received by the call
    result,          \* what the call returned or raised
    sleeps,          \* time.sleep calls of the call
    http,            \* HTTP requests the call sent to the API
    records,         \* record_request calls of the call
    auths,           \* authenticate() calls of the call
    consults,        \* wait_if_needed calls of the call
    returned,        \* what the last direct authenticate() call returned
    presented,       \* the refresh token that call sent to the provider
    clock,           \* datetime.now(), the local wall clock, in half days
    candles,         \* the rows of table candles of market_data.db
    symbol_cache,    \* Chronos.symbol_cache, the names it holds
    symbols,         \* the rows of table symbols of symbols.db
    candle_call,     \* the last get_candles call: its arguments, the message
                     \* it printed, its candle requests, the answer, its result
    categorized,     \* the last direct get_category_for_endpoint call and its result
    symbol_call,     \* the last direct get_symbol_info call: its argument, the
                     \* source its message named, its searches, what it raised
    txn,             \* the batch write in progress or just ended: the method,
                     \* the batch, what its connection has written and not
                     \* committed, the store and the cache when it began
    seen,            \* what the last SELECT of another connection returned
    stale,           \* the symbols of the rows of table symbols whose
                     \* updated_at is older than days_threshold days
    invalidated,     \* the names the cache held when clear_symbol_cache
                     \* emptied it and that were not asked for since
    market_db,       \* data/market_data.db: absent, a database without
                     \* table candles, or one with it
    search_call,     \* the last search_candles_from_db call: its arguments
                     \* and the candles it returned
    age_call,        \* the last age get_candles computed: the cursor and its
                     \* UTC offset, the local reading and the UTC offset of
                     \* the local zone, the days it counted
    stale_call       \* the update_stale_symbols call in progress or just
                     \* ended: its position, the stale symbols it selected
                     \* and has still to update, the table when it began,
                     \* the names it searched, what it raised

limiter == <<second_history, hour_history, remaining, reset_time>>
config == <<max_retries, enforce_rate_limit>>
auth == <<session, token_file, provider>>
calls == <<pc, method, retry_count, wait_time, wake, current_time, response,
           result, sleeps, http, records, auths, consults>>
authlog == <<returned, presented>>
chronos == <<clock, candles, symbol_cache, symbols, candle_call, stale,
             market_db>>
\* what the dispatcher's steps leave alone
lookups == <<search_call, age_call>>
probes == <<categorized, symbol_call, txn, seen, invalidated, stale_call,
            lookups>>
others == <<authlog, chronos, probes>>
vars == <<endpoint, now, second_history, hour_history, remaining, reset_time,
          waited, max_retries, enforce_rate_limit, session, token_file,
          provider, pc, method, retry_count, wait_time, wake, current_time,
          response, result, sleeps, http, records, auths, consults, returned,
          presented,
          clock, candles, symbol_cache, symbols, candle_call, categorized,
          symbol_call, txn, seen, stale, invalidated, stale_call, market_db,
          search_call, age_call>>

NoCall == [category |-> "none", wait_time |-> 0]

\* a point of time as a stored or requested string: the wall-clock reading
\* an ISO timestamp carries, or a text that is no timestamp
At(n) == [kind |-> "time", wall |-> n]
Unparseable == [kind |-> "text", wall |-> 0]

\* no get_candles call made yet
NoCandleCall ==
    [symbol |-> "", interval |-> "", days |-> 0, force_refresh |-> FALSE,
     rows_before |-> 0, state |-> "none", fetched |-> <<>>,
     candles_response |-> <<>>, outcome |-> "none", all_candles_data |-> <<>>]

\* no get_category_for_endpoint call made yet
NotCategorized == [path |-> <<>>, category |-> "none"]

\* no get_symbol_info call made yet
NoSymbolCall ==
    [symbol |-> "", printed |-> "none", searches |-> 0, raised |-> "none",
     returns |-> "none"]

\* no batch being written
NoTxn == [op |-> "none", state |-> "none", batch |-> <<>>, todo |-> <<>>,
          image |-> {}, base |-> {}, cache |-> {}]

\* no update_stale_symbols call made yet
NoStaleCall ==
    [state |-> "none", selected |-> {}, todo |-> <<>>, before |-> {},
     searched |-> <<>>, raised |-> "none"]

\* no search_candles_from_db call made yet
NoSearchCall ==
    [symbol |-> "", interval |-> "", start_date |-> <<>>, end_date |-> <<>>,
     candles |-> <<>>]

\* no age computed yet
NoAgeCall ==
    [last_end |-> 0, last_offset |-> 0, end_time |-> 0, local_offset |-> 0,
     days_diff |-> 0, computed |-> FALSE]

\* nothing called directly yet
ProbesInit ==
    /\ categorized = NotCategorized
    /\ symbol_call = NoSymbolCall
    /\ txn = NoTxn
    /\ seen = [candles |-> {}, symbols |-> {}]
    /\ invalidated = {}
    /\ stale_call = NoStaleCall
    /\ search_call = NoSearchCall
    /\ age_call = NoAgeCall

\* Chronos.__init__ and databases that hold nothing yet
ChronosInit ==
    /\ clock = 0
    /\ candles = {}
    /\ symbol_cache = {}
    /\ symbols = {}
    /\ candle_call = NoCandleCall
    /\ stale = {}
    /\ market_db = "absent"

\* ------------------------------------------------------------ RateLimiter

\* a deque without maxlen: nothing drops
DequeAppend_unbounded(d, x, maxlen) == Append(d, x)

\* deque(maxlen=n).append(x): the oldest entry drops when the deque is full
DequeAppend(d, x, maxlen) ==
    IF Len(d) >= maxlen THEN Append(Tail(d), x) ELSE Append(d, x)

\* RateLimiter.__init__ at time t0
LimiterInit(t0) ==
    /\ second_history = [c \in ApiCategory |-> <<>>]
    /\ hour_history = [c \in ApiCategory |-> <<>>]
    /\ remaining = [c \in ApiCategory |-> RATE_LIMITS(c)[1]]
    /\ reset_time = [c \in ApiCategory |-> t0 + OneSecond]

\* RateLimiter.update_limits
update_limits(category, rem, reset) ==
    /\ remaining' = [remaining EXCEPT ![category] = rem]
    /\ reset_time' = [reset_time EXCEPT ![category] = reset]

\* RateLimiter.record_request, from the append under the lock on; current_time
\* was read before the lock was taken
record_request(category, stamp) ==
    /\ second_history' = [second_history EXCEPT ![category] =
            DequeAppend(@, stamp, RATE_LIMITS(category)[1])]
    /\ hour_history' = [hour_history EXCEPT ![category] =
            DequeAppend(@, stamp, RATE_LIMITS(category)[2])]

\* the three checks of wait_if_needed, each max(0, ...) as in the source
ServerWait(category) == Max(0, reset_time[category] - now)
SecondWait(category) == Max(0, OneSecond - (now - Head(second_history[category])))
HourWait(category) == Max(0, OneHour - (now - Head(hour_history[category])))

\* wait_if_needed with the local per-second window consulted before the
\* server-reported state
wait_if_needed_local_first(category) ==
    IF Len(second_history[category]) >= RATE_LIMITS(category)[1]
            /\ SecondWait(category) > 0
    THEN SecondWait(category)
    ELSE IF remaining[category] <= 0 /\ ServerWait(category) > 0
    THEN ServerWait(category)
    ELSE IF Len(hour_history[category]) >= RATE_LIMITS(category)[2]
            /\ HourWait(category) > 0
    THEN HourWait(category)
    ELSE 0

\* wait_if_needed with the window sizes compared by > instead of >=
wait_if_needed_strict_len(category) ==
    IF remaining[category] <= 0 /\ ServerWait(category) > 0
    THEN ServerWait(category)
    ELSE IF Len(second_history[category]) > RATE_LIMITS(category)[1]
            /\ SecondWait(category) > 0
    THEN SecondWait(category)
    ELSE IF Len(hour_history[category]) > RATE_LIMITS(category)[2]
            /\ HourWait(category) > 0
    THEN HourWait(category)
    ELSE 0

\* wait_if_needed returning the difference to the reset time as it is
wait_if_needed_unclamped(category) ==
    IF remaining[category] <= 0
    THEN reset_time[category] - now
    ELSE IF Len(second_history[category]) >= RATE_LIMITS(category)[1]
            /\ SecondWait(category) > 0
    THEN SecondWait(category)
    ELSE IF Len(hour_history[category]) >= RATE_LIMITS(category)[2]
            /\ HourWait(category) > 0
    THEN HourWait(category)
    ELSE 0

\* RateLimiter.wait_if_needed
wait_if_needed(category) ==
    IF remaining[category] <= 0 /\ ServerWait(category) > 0
    THEN ServerWait(category)
    ELSE IF Len(second_history[category]) >= RATE_LIMITS(category)[1]
            /\ SecondWait(category) > 0
    THEN SecondWait(category)
    ELSE IF Len(hour_history[category]) >= RATE_LIMITS(category)[2]
            /\ HourWait(category) > 0
    THEN HourWait(category)
    ELSE 0

\* values a caller (or a response header) reports
RemainingValues == {0, 1}
ResetDelays == {1, OneSecond}

\* ------------------------------------------------------------ QuestradeAPI

Threads == {1, 2}

None == 0            \* Python's None, where a token or a number is expected
EmptyString == -1    \* the empty string input() returns when nothing is typed
NoServer == "None"

\* the JSON object the OAuth provider answers an accepted refresh token with
TokenResponse(g) ==
    [api_server |-> "https://api/", access_token |-> g, token_type |-> "Bearer",
     expires_in |-> 1800, refresh_token |-> g]

NoData ==
    [api_server |-> NoServer, access_token |-> None, token_type |-> "None",
     expires_in |-> None, refresh_token |-> None]

\* QuestradeAPI.__init__, before it calls authenticate()
NewSession(token) == [NoData EXCEPT !.refresh_token = token]

\* what authenticate() meets: what the user types at the prompt, how the
\* provider answers, and whether the token file can be written
AuthEnvs ==
    [typed : {EmptyString, 1},
     exchange : {"ok", "refused", "error"},
     save : {"saved"}]

\* the same, the write of the token file refused (PermissionError) included
AuthEnvsAll ==
    [typed : {EmptyString, 1, 2},
     exchange : {"ok", "refused", "error"},
     save : {"saved", "denied"}]

\* QuestradeAPI.authenticate: the session, token file and provider after the
\* call, and what it returned ("raise": an exception left it). A token
\* file is missing, no JSON ("corrupt"), JSON that is no object ("array":
\* token_data['refresh_token'] raises TypeError) or the saved answer
authenticate(s, f, p, env) ==
    LET unreadable == s.refresh_token = None /\ f.state = "corrupt"
        loaded == IF s.refresh_token # None THEN s.refresh_token
                  ELSE IF f.state = "saved" THEN f.data.refresh_token
                  ELSE env.typed
        s1 == [s EXCEPT !.refresh_token = loaded]
        accepted == env.exchange = "ok" /\ loaded = p /\ p < MaxAuth
        json == TokenResponse(p + 1)
    IN  IF s.refresh_token = None /\ f.state = "array"
        THEN [session |-> s, token_file |-> f, provider |-> p,
              returned |-> "raise", presented |-> None]
        ELSE IF unreadable
        THEN [session |-> s, token_file |-> f, provider |-> p,
              returned |-> "False", presented |-> None]
        ELSE IF loaded = EmptyString /\ s.refresh_token = None /\ f.state = "missing"
        THEN [session |-> s1, token_file |-> f, provider |-> p,
              returned |-> "False", presented |-> None]
        ELSE IF env.exchange = "error"
        THEN [session |-> s1, token_file |-> f, provider |-> p,
              returned |-> "raise", presented |-> loaded]
        ELSE IF ~accepted
        THEN [session |-> s1, token_file |-> f, provider |-> p,
              returned |-> "False", presented |-> loaded]
        ELSE [session |-> json,
              token_file |-> IF env.save = "saved"
                             THEN [state |-> "saved", data |-> json]
                             ELSE f,
              provider |-> p + 1,
              returned |-> "True", presented |-> loaded]

\* ----- results of a call

NoResult == [kind |-> "none", code |-> "", status |-> None, retry_after |-> None]
Returned == [kind |-> "ok", code |-> "", status |-> None, retry_after |-> None]
QuestradeGeneralError(code, status) ==
    [kind |-> "General", code |-> code, status |-> status, retry_after |-> None]
QuestradeOrderError(code, status) ==
    [kind |-> "Order", code |-> code, status |-> status, retry_after |-> None]
\* retry_after is a duration in ticks, or NoWait for Python's None
NoWait == -1
QuestradeRateLimitError(code, status, retry_after) ==
    [kind |-> "RateLimit", code |-> code, status |-> status, retry_after |-> retry_after]
\* an exception that is none of the QuestradeAPIError classes
Unhandled(name) ==
    [kind |-> "Unhandled", code |-> name, status |-> None, retry_after |-> None]

\* ----- what the HTTP layer answers

Methods == {"GET", "PATCH"}
Supported(m) == m \in {"GET", "POST", "PUT", "DELETE"}

\* requests.get and its siblings return a response for every status and raise
\* HTTPError only from raise_for_status(), which the wrapper never calls
Transport == {"response", "ConnectionError", "Timeout", "RequestException"}
Statuses == {200, 400, 401, 404, 429, 500}
\* a header is absent, or text that int() and float() reject, or a numeral
Absent == [kind |-> "absent", value |-> 0]
Garbage == [kind |-> "garbage", value |-> 0]
Numeral(n) == [kind |-> "int", value |-> n]
RemainingHeaders == {Absent, Garbage} \cup { Numeral(n) : n \in RemainingValues }
\* a reset time already past, or one second ahead
ResetHeaders == {Absent, Garbage, Numeral(now - 1), Numeral(now + OneSecond)}
\* the two headers of a response: two numerals, or one header absent or
\* unparseable beside a numeral of the other
HeaderPairs ==
    {p \in RemainingHeaders \X ResetHeaders :
        \/ p[1].kind = "int" /\ p[2].kind = "int"
        \/ p[1].kind # "int" /\ p[2] = Numeral(now + OneSecond)
        \/ p[1] = Numeral(1) /\ p[2].kind # "int"}
\* the body of a response before response.json() has read it
Unread == [kind |-> "unread", code |-> "absent", build |-> "any"]
NoResponse ==
    [status |-> None, remaining |-> Absent, reset |-> Absent, raised |-> "none",
     body |-> Unread]

\* how response.json() fails on a body that is no JSON: requests >= 2.27
\* raises its own JSONDecodeError, a RequestException that is also a
\* json.JSONDecodeError unless simplejson is installed; older versions raise
\* json.JSONDecodeError, or simplejson's, which is only a ValueError
Builds == {"requests_json", "requests_simplejson", "json", "simplejson"}

\* the 'code' field of a JSON error body, or none
BodyCodes == {"1019", "absent"}

\* a body is a JSON object ("json"), one with orderId only ("orderId"), one
\* with orderId and orders ("order"), a JSON value that is no object
\* ("array"), or no JSON at all ("garbage"), and then the build decides what
\* response.json() raises
Bodies ==
    { [kind |-> "json", code |-> c, build |-> "any"] : c \in BodyCodes }
        \cup { [kind |-> k, code |-> "1019", build |-> "any"] : k \in {"orderId", "order"} }
        \cup {[kind |-> "array", code |-> "absent", build |-> "any"]}
        \cup { [kind |-> "garbage", code |-> "absent", build |-> b] : b \in Builds }

\* str(error_data.get('code', '0'))
ErrorCode(body) == IF body.code = "absent" THEN "0" ELSE body.code

\* int(remaining) and float(reset) both succeed
HeadersParse(r) == r.remaining.kind = "int" /\ r.reset.kind = "int"

\* _parse_rate_limit_headers reading a missing or unparseable header as
\* "no limit reported"
parse_rate_limit_headers_unlimited(r, category) ==
    IF HeadersParse(r)
    THEN update_limits(category, r.remaining.value, r.reset.value)
    ELSE update_limits(category, RATE_LIMITS(category)[1], now)

\* QuestradeAPI._parse_rate_limit_headers
parse_rate_limit_headers(r, category) ==
    IF HeadersParse(r)
    THEN update_limits(category, r.remaining.value, r.reset.value)
    ELSE UNCHANGED <<remaining, reset_time>>

\* the except clause of _make_request that takes a failed response.json()
JsonFailure(build, inner) ==
    CASE build = "requests_json" -> inner
      [] build = "json" -> inner
      [] build = "requests_simplejson" -> Unhandled("AttributeError")
      [] build = "simplejson" -> QuestradeGeneralError("1021", None)

\* lines 284-308: the status of a response that is not 429
Outcome(status, body) ==
    LET build == body.build IN
    IF status >= 400
    THEN CASE body.kind = "order" -> QuestradeOrderError(ErrorCode(body), status)
           [] body.kind \in {"json", "orderId"} ->
                QuestradeGeneralError(ErrorCode(body), status)
           [] body.kind = "array" -> QuestradeGeneralError("1021", None)
           [] body.kind = "garbage" ->
                JsonFailure(build,
                    IF status = 404
                    THEN QuestradeGeneralError("1001", 404)
                    ELSE QuestradeGeneralError("1021", status))
    ELSE IF body.kind = "garbage"
    THEN CASE build = "requests_json" -> Unhandled("AttributeError")
           [] build = "requests_simplejson" -> Unhandled("AttributeError")
           [] build = "json" -> QuestradeGeneralError("1010", None)
           [] build = "simplejson" -> QuestradeGeneralError("1021", None)
    ELSE Returned

\* the wait of a 429 response taken as the header's absolute time
RetrySeconds_absolute(r) ==
    CASE r.reset.kind = "absent" -> NoWait
      [] r.reset.kind = "garbage" -> OneSecond
      [] OTHER -> Max(0, r.reset.value)

\* lines 264-271: the wait a 429 response asks for
RetrySeconds(r) ==
    CASE r.reset.kind = "absent" -> NoWait
      [] r.reset.kind = "garbage" -> OneSecond
      [] OTHER -> Max(0, r.reset.value - now)

\* ----- _make_request, one step at a time

\* the category of this run's calls
Category == get_category_for_endpoint(endpoint)

\* the frame that raises was entered from line 276, inside the try of the
\* frame that received a 429: an earlier request of this call went out
Enclosed(t) == http[t] > (IF pc[t] \in {"inflight", "status"} THEN 1 ELSE 0)

\* lines 348-384 of an enclosing frame: a QuestradeAPIError passes through,
\* anything else is wrapped
Propagate(t, r) ==
    IF r.kind = "Unhandled" /\ Enclosed(t)
    THEN IF r.code = "ConnectionError"
         THEN QuestradeGeneralError("1011", None)
         ELSE QuestradeGeneralError("1021", None)
    ELSE r

\* the call of thread t ends with r returned or raised by its innermost frame
Finish(t, r) ==
    /\ pc' = [pc EXCEPT ![t] = "done"]
    /\ result' = [result EXCEPT ![t] = Propagate(t, r)]

\* line 213: what _make_request raises when authenticate() returns False
AuthenticationFailed_as_401 == QuestradeGeneralError("1017", 401)
AuthenticationFailed == QuestradeGeneralError("1000", None)

\* the throttle check with the retry count compared by <= instead of <
GateVerdict_one_more(w, rc) ==
    IF enforce_rate_limit /\ w > 0
    THEN IF rc <= max_retries THEN "sleep" ELSE "raise"
    ELSE "pass"

\* the 429 branch retrying whatever the retry count
RetryVerdict_unbounded(r, rc) ==
    IF RetrySeconds(r) # NoWait THEN "sleep" ELSE "raise"

\* the throttle check made whether or not enforcement is on
GateVerdict_unconditional(w, rc) ==
    IF w > 0
    THEN IF rc < max_retries THEN "sleep" ELSE "raise"
    ELSE "pass"

\* lines 219-231: what the throttle check does with the wait w at retry
\* count rc
GateVerdict(w, rc) ==
    IF enforce_rate_limit /\ w > 0
    THEN IF rc < max_retries THEN "sleep" ELSE "raise"
    ELSE "pass"

\* lines 273-282: what a 429 response r leads to at retry count rc
RetryVerdict(r, rc) ==
    IF rc < max_retries /\ RetrySeconds(r) # NoWait THEN "sleep" ELSE "raise"

\* a caller invokes _make_request(endpoint, method)
Start(t) ==
    /\ pc[t] = "idle"
    /\ \E m \in Methods : method' = [method EXCEPT ![t] = m]
    /\ pc' = [pc EXCEPT ![t] = "auth"]
    /\ UNCHANGED <<others, consults, endpoint, now, limiter, waited, config, auth, retry_count,
                   wait_time, wake, current_time, response, result, sleeps,
                   http, records, auths>>

\* lines 210-213: ensure we have a valid token
Auth(t) ==
    /\ pc[t] = "auth"
    /\ IF session.access_token = None \/ session.api_server = NoServer
       THEN \E env \in AuthEnvs :
              LET a == authenticate(session, token_file, provider, env) IN
              /\ session' = a.session
              /\ token_file' = a.token_file
              /\ provider' = a.provider
              /\ auths' = [auths EXCEPT ![t] = @ + 1]
              /\ CASE a.returned = "True" ->
                        pc' = [pc EXCEPT ![t] = "gate"] /\ UNCHANGED result
                   [] a.returned = "False" ->
                        Finish(t, AuthenticationFailed)
                   [] a.returned = "raise" ->
                        Finish(t, Unhandled("ConnectionError"))
       ELSE /\ pc' = [pc EXCEPT ![t] = "gate"]
            /\ UNCHANGED <<auth, auths, result>>
    /\ UNCHANGED <<others, consults, endpoint, now, limiter, waited, config, method, retry_count,
                   wait_time, wake, current_time, response, sleeps, http, records>>

\* lines 215-231: check if we need to wait for rate limiting
Gate(t) ==
    /\ pc[t] = "gate"
    /\ consults' = [consults EXCEPT ![t] = IF enforce_rate_limit THEN @ + 1 ELSE @]
    /\ LET w == wait_if_needed(Category)
           verdict == GateVerdict(w, retry_count[t]) IN
       CASE verdict = "sleep" ->
                 /\ pc' = [pc EXCEPT ![t] = "sleep"]
                 /\ wait_time' = [wait_time EXCEPT ![t] = w]
                 /\ wake' = [wake EXCEPT ![t] = now + w]
                 /\ sleeps' = [sleeps EXCEPT ![t] = @ + 1]
                 /\ UNCHANGED result
         [] verdict = "raise" ->
                 /\ Finish(t, QuestradeRateLimitError("1006", 429, w))
                 /\ UNCHANGED <<wait_time, wake, sleeps>>
         [] verdict = "pass" ->
                 /\ pc' = [pc EXCEPT ![t] = "record"]
                 /\ UNCHANGED <<wait_time, wake, sleeps, result>>
    /\ UNCHANGED <<others, endpoint, now, limiter, waited, config, auth, method,
                   retry_count, current_time, response, http, records, auths>>

\* lines 224-225 and 275-276: time.sleep returns and _make_request is called
\* again with retry_count + 1
Sleep(t) ==
    /\ pc[t] = "sleep"
    /\ now >= wake[t]
    /\ retry_count' = [retry_count EXCEPT ![t] = @ + 1]
    /\ wait_time' = [wait_time EXCEPT ![t] = 0]
    /\ wake' = [wake EXCEPT ![t] = 0]
    /\ pc' = [pc EXCEPT ![t] = "auth"]
    /\ UNCHANGED <<others, consults, endpoint, now, limiter, waited, config, auth, method,
                   current_time, response, result, sleeps, http, records, auths>>

\* line 244 into RateLimiter.py line 82: record_request reads the clock
RecordRead(t) ==
    /\ pc[t] = "record"
    /\ current_time' = [current_time EXCEPT ![t] = now]
    /\ pc' = [pc EXCEPT ![t] = "append"]
    /\ UNCHANGED <<others, consults, endpoint, now, limiter, waited, config, auth, method,
                   retry_count, wait_time, wake, response, result, sleeps,
                   http, records, auths>>

\* RateLimiter.py lines 84-87: record_request appends under the lock
RecordAppend(t) ==
    /\ pc[t] = "append"
    /\ record_request(Category, current_time[t])
    /\ records' = [records EXCEPT ![t] = @ + 1]
    /\ current_time' = [current_time EXCEPT ![t] = 0]
    /\ pc' = [pc EXCEPT ![t] = "send"]
    /\ UNCHANGED <<others, consults, endpoint, now, remaining, reset_time, waited, config, auth,
                   method, retry_count, wait_time, wake, response, result,
                   sleeps, http, auths>>

\* lines 246-257: the request goes out, or the method is not supported and
\* the ValueError is wrapped at line 384
Send(t) ==
    /\ pc[t] = "send"
    /\ IF Supported(method[t])
       THEN /\ http' = [http EXCEPT ![t] = @ + 1]
            /\ pc' = [pc EXCEPT ![t] = "inflight"]
            /\ UNCHANGED result
       ELSE /\ Finish(t, QuestradeGeneralError("1021", None))
            /\ UNCHANGED http
    /\ UNCHANGED <<others, consults, endpoint, now, limiter, waited, config, auth, method,
                   retry_count, wait_time, wake, current_time, response,
                   sleeps, records, auths>>

\* the except clauses with a timeout falling through to the generic wrapper
TransportFailure_timeout_generic(x) ==
    CASE x = "ConnectionError" -> QuestradeGeneralError("1011", None)
      [] x = "Timeout" -> QuestradeGeneralError("1021", None)
      [] x = "RequestException" -> Unhandled("AttributeError")

\* lines 348-374: the except clause that takes the exception x of the HTTP
\* call
TransportFailure(x) ==
    CASE x = "ConnectionError" -> QuestradeGeneralError("1011", None)
      [] x = "Timeout" -> QuestradeGeneralError("1011", None)
      [] x = "RequestException" -> Unhandled("AttributeError")

\* lines 246-255 and 348-374: the HTTP call raises instead of returning a
\* response
Fail(t) ==
    /\ pc[t] = "inflight"
    /\ \E x \in Transport \ {"response"} :
        /\ response' = [response EXCEPT ![t] = [NoResponse EXCEPT !.raised = x]]
        /\ Finish(t, TransportFailure(x))
    /\ UNCHANGED <<others, consults, endpoint, now, limiter, waited, config, auth, method,
                   retry_count, wait_time, wake, current_time,
                   sleeps, http, records, auths>>

\* lines 246-260: a response arrives and its rate-limit headers are parsed,
\* before its status is looked at
Receive(t) ==
    /\ pc[t] = "inflight"
    /\ \E status \in Statuses, headers \in HeaderPairs :
        LET r == [status |-> status, remaining |-> headers[1],
                  reset |-> headers[2],
                  raised |-> "none", body |-> Unread] IN
        /\ response' = [response EXCEPT ![t] = r]
        /\ parse_rate_limit_headers(r, Category)
    /\ pc' = [pc EXCEPT ![t] = "status"]
    /\ UNCHANGED <<others, consults, endpoint, now, second_history, hour_history, waited, config,
                   auth, method, retry_count, wait_time, wake, current_time,
                   result, sleeps, http, records, auths>>

\* a 401 response taken into the sleep-and-retry branch as well
Throttled_or_unauthorized(r) == r.status \in {401, 429}

\* line 263: the one status that is retried
Throttled(r) == r.status = 429

\* lines 262-308: response.status_code is acted on; response.json() reads
\* the body
HandleStatus(t) ==
    /\ pc[t] = "status"
    /\ LET r == response[t] IN
       IF Throttled(r)
       THEN IF RetryVerdict(r, retry_count[t]) = "sleep"
            THEN /\ pc' = [pc EXCEPT ![t] = "sleep"]
                 /\ wait_time' = [wait_time EXCEPT ![t] = RetrySeconds(r)]
                 /\ wake' = [wake EXCEPT ![t] = now + RetrySeconds(r)]
                 /\ sleeps' = [sleeps EXCEPT ![t] = @ + 1]
                 /\ UNCHANGED result
                 /\ response' = [response EXCEPT ![t] = NoResponse]
            ELSE /\ Finish(t, QuestradeRateLimitError("1006", 429, RetrySeconds(r)))
                 /\ response' = [response EXCEPT ![t] = NoResponse]
                 /\ UNCHANGED <<wait_time, wake, sleeps>>
       ELSE /\ \E b \in Bodies :
                /\ Finish(t, Outcome(r.status, b))
                /\ response' = [response EXCEPT ![t] =
                        [NoResponse EXCEPT !.status = r.status, !.body = b]]
            /\ UNCHANGED <<wait_time, wake, sleeps>>
    /\ UNCHANGED <<others, consults, endpoint, now, limiter, waited, config, auth, method,
                   retry_count, current_time, http, records, auths>>

\* the caller takes the result; the next call starts afresh
Return(t) ==
    /\ pc[t] = "done"
    /\ pc' = [pc EXCEPT ![t] = "idle"]
    /\ method' = [method EXCEPT ![t] = "GET"]
    /\ retry_count' = [retry_count EXCEPT ![t] = 0]
    /\ wait_time' = [wait_time EXCEPT ![t] = 0]
    /\ wake' = [wake EXCEPT ![t] = 0]
    /\ current_time' = [current_time EXCEPT ![t] = 0]
    /\ result' = [result EXCEPT ![t] = NoResult]
    /\ sleeps' = [sleeps EXCEPT ![t] = 0]
    /\ http' = [http EXCEPT ![t] = 0]
    /\ records' = [records EXCEPT ![t] = 0]
    /\ auths' = [auths EXCEPT ![t] = 0]
    /\ consults' = [consults EXCEPT ![t] = 0]
    /\ response' = [response EXCEPT ![t] = NoResponse]
    /\ UNCHANGED <<others, endpoint, now, limiter, waited, config, auth>>

Idle == \A t \in Threads : pc[t] = "idle"

\* no call is in progress
CallsInit ==
    /\ pc = [t \in Threads |-> "idle"]
    /\ method = [t \in Threads |-> "GET"]
    /\ retry_count = [t \in Threads |-> 0]
    /\ wait_time = [t \in Threads |-> 0]
    /\ wake = [t \in Threads |-> 0]
    /\ current_time = [t \in Threads |-> 0]
    /\ response = [t \in Threads |-> NoResponse]
    /\ result = [t \in Threads |-> NoResult]
    /\ sleeps = [t \in Threads |-> 0]
    /\ http = [t \in Threads |-> 0]
    /\ records = [t \in Threads |-> 0]
    /\ auths = [t \in Threads |-> 0]
    /\ consults = [t \in Threads |-> 0]
    /\ returned = "none"
    /\ presented = None
    /\ ChronosInit
    /\ ProbesInit

\* QuestradeAPI.__init__: the fields are set and authenticate() is called
\* once; its return value is ignored
Construct ==
    /\ endpoint \in Endpoints
    /\ now = 0
    /\ LimiterInit(0)
    /\ waited = NoCall
    /\ max_retries \in {0, MaxRetriesCap}
    /\ enforce_rate_limit \in BOOLEAN
    /\ \E token \in {None, 1}, env \in AuthEnvs,
          f \in {[state |-> "missing", data |-> NoData],
                 [state |-> "corrupt", data |-> NoData],
                 [state |-> "saved", data |-> TokenResponse(1)]} :
        LET a == authenticate(NewSession(token), f, 1, env) IN
        /\ a.returned # "raise"
        /\ session = a.session
        /\ token_file = a.token_file
        /\ provider = a.provider
    /\ CallsInit

\* ------------------------------------------------- the limiter called directly

\* half a second passes: while no call is running, during the HTTP round
\* trip or during a sleep.  The other steps of a single caller are taken at
\* once: a wait_if_needed that answers 0 answers 0 at any later time too, so
\* time passing before record_request is time passing before the call
Tick ==
    /\ now < MaxTime
    /\ \A t \in Threads : pc[t] \in {"idle", "inflight", "sleep"}
    /\ now' = now + 1
    /\ waited' = NoCall
    /\ UNCHANGED <<others, endpoint, limiter, config, auth, calls>>

CallUpdateLimits ==
    \E c \in {Category}, rem \in RemainingValues, d \in ResetDelays :
        /\ update_limits(c, rem, now + d)
        /\ waited' = NoCall
        /\ UNCHANGED <<others, endpoint, now, second_history, hour_history, config, auth, calls>>

CallRecordRequest ==
    \E c \in {Category} :
        /\ Idle
        /\ record_request(c, now)
        /\ waited' = NoCall
        /\ UNCHANGED <<others, endpoint, now, remaining, reset_time, config, auth, calls>>

CallWaitIfNeeded ==
    \E c \in {Category} :
        /\ waited' = [category |-> c, wait_time |-> wait_if_needed(c)]
        /\ UNCHANGED <<others, endpoint, now, limiter, config, auth, calls>>

\* a RateLimiter constructed on its own and called directly
LimiterStart ==
    /\ endpoint \in Endpoints
    /\ now = 0
    /\ LimiterInit(0)
    /\ waited = NoCall
    /\ max_retries = 0
    /\ enforce_rate_limit = TRUE
    /\ session = NewSession(None)
    /\ token_file = [state |-> "missing", data |-> NoData]
    /\ provider = 1
    /\ CallsInit

LimiterNext ==
    \/ Tick
    \/ CallUpdateLimits
    \/ CallRecordRequest
    \/ CallWaitIfNeeded

SpecLimiter == LimiterStart /\ [][LimiterNext]_vars

\* the segments of the paths get_category_for_endpoint is handed
Segments == {"", "v1", "markets", "marketsx", "symbols", "time", "accounts", "options"}
Paths == UNION { [1..n -> Segments] : n \in 0..MaxPath }

\* a caller invokes get_category_for_endpoint(endpoint)
CallGetCategory ==
    /\ categorized' = [path |-> endpoint,
                       category |-> get_category_for_endpoint(endpoint)]
    /\ UNCHANGED <<authlog, chronos, symbol_call, txn, seen, invalidated,
                   stale_call, lookups, endpoint, now, limiter, waited,
                   config, auth, calls>>

\* a RateLimiter constructed on its own, asked for the category of a path
\* between other direct calls
CategoryStart ==
    /\ endpoint \in Paths
    /\ now = 0
    /\ LimiterInit(0)
    /\ waited = NoCall
    /\ max_retries = 0
    /\ enforce_rate_limit = TRUE
    /\ session = NewSession(None)
    /\ token_file = [state |-> "missing", data |-> NoData]
    /\ provider = 1
    /\ CallsInit

CategoryNext ==
    \/ CallGetCategory
    \/ CallUpdateLimits
    \/ CallRecordRequest

SpecCategory == CategoryStart /\ [][CategoryNext]_vars

\* one caller: calls of _make_request one after the other, the limiter filled
\* directly between them as scripts/api_validator.py does
Init == Construct

\* a call of _make_request up to its request going out
Issue(t) ==
    \/ Start(t)
    \/ Auth(t)
    \/ Gate(t)
    \/ Sleep(t)
    \/ RecordRead(t)
    \/ RecordAppend(t)
    \/ Send(t)

\* what comes back of the request
Answer(t) ==
    \/ Fail(t)
    \/ Receive(t)
    \/ HandleStatus(t)

\* half a second passes, as in Tick, for the single caller
Pass ==
    /\ now < MaxCallTime
    /\ \A t \in Threads : pc[t] \in {"idle", "inflight", "sleep"}
    /\ now' = now + 1
    /\ waited' = NoCall
    /\ UNCHANGED <<others, endpoint, limiter, config, auth, calls>>

Next ==
    \/ Pass
    \/ CallRecordRequest
    \/ Issue(1)
    \/ Answer(1)
    \/ Return(1)

Spec == Init /\ [][Next]_vars

\* two threads, each calling _make_request once on one authenticated
\* QuestradeAPI object that enforces the limits, after the limiter was
\* filled directly; time passes between any two steps, and the run is
\* followed up to the requests going out
InitThreads ==
    /\ Construct
    /\ enforce_rate_limit
    /\ session.access_token # None

Elapse ==
    /\ now < MaxTime
    /\ now' = now + 1
    /\ UNCHANGED <<others, endpoint, limiter, waited, config, auth, calls>>

NextThreads ==
    \/ Elapse
    \/ CallRecordRequest
    \/ \E t \in Threads : Issue(t)

SpecThreads == InitThreads /\ [][NextThreads]_vars

\* ------------------------------------------------ authenticate() on its own

\* the token file as a process finds it
TokenFiles ==
    {[state |-> "missing", data |-> NoData],
     [state |-> "corrupt", data |-> NoData],
     [state |-> "array", data |-> NoData],
     [state |-> "saved", data |-> TokenResponse(1)]}

\* a process sets the fields of a QuestradeAPI object (lines 93-112), with or
\* without a refresh token passed in
AuthStart ==
    /\ endpoint = <<"v1", "time">>
    /\ now = 0
    /\ LimiterInit(0)
    /\ waited = NoCall
    /\ max_retries = 0
    /\ enforce_rate_limit = TRUE
    /\ \E token \in {None, 1} : session = NewSession(token)
    /\ token_file \in TokenFiles
    /\ provider = 1
    /\ CallsInit

\* authenticate() is called: by __init__, by a caller, by _make_request
CallAuthenticate ==
    /\ \E env \in AuthEnvsAll :
        LET a == authenticate(session, token_file, provider, env) IN
        /\ session' = a.session
        /\ token_file' = a.token_file
        /\ provider' = a.provider
        /\ returned' = a.returned
        /\ presented' = a.presented
    /\ UNCHANGED <<chronos, probes, endpoint, now, limiter, waited, config, calls>>

\* the process ends and a new one constructs its QuestradeAPI object: with
\* no refresh token passed in, what it knows is what the token file holds
Restart ==
    /\ returned # "none"
    /\ \E token \in {None, 1, 2} : session' = NewSession(token)
    /\ returned' = "none"
    /\ presented' = None
    /\ UNCHANGED <<chronos, probes, endpoint, now, limiter, waited, config, token_file,
                   provider, calls>>

AuthNext ==
    \/ CallAuthenticate
    \/ Restart

SpecAuth == AuthStart /\ [][AuthNext]_vars

\* ---------------------------------------------------------------- Chronos

\* the symbols the provider lists
Symbols == {"AAP", "AAPL", "MSFT"}
\* the symbol, the intervals and the days get_candles is called with
CandleSymbols == {"AAPL"}
Intervals == {"OneDay", "OneMinute"}
DaysArgs == {1, 2}

\* symbol_data['symbolId'] of the first match of a symbol search
SymbolId(name) ==
    CASE name = "AAPL" -> 1 [] name = "MSFT" -> 2 [] OTHER -> 3

\* what api.search_symbols does: a list with a match first, an empty list,
\* or an error of the dispatcher
SearchOutcomes == {"match", "empty", "error"}

\* the search is by prefix: its first match is the symbol of the name asked
\* for ("match") or a longer symbol that starts with it ("longer")
Longer(name) == IF name = "AAP" THEN {"AAPL"} ELSE {}
SymbolSearchOutcomes(name) ==
    SearchOutcomes \cup (IF Longer(name) # {} THEN {"longer"} ELSE {})
FirstMatch(name, found) ==
    IF found = "longer" THEN CHOOSE l \in Longer(name) : TRUE ELSE name

\* the stale symbols once rows were written with updated_at the time of
\* the write: their row is still in the table and was not one written
StaleAfter(table, written) ==
    {n \in stale : n \notin written /\ \E r \in table : r.symbol = n}

\* an INSERT OR REPLACE that resolves conflicts on the primary key only
SaveSymbol_primary_key_only(table, r) ==
    {q \in table : q.symbol_id # r.symbol_id} \cup {r}

\* lines 111-118: INSERT OR REPLACE INTO symbols, symbol_id the primary key
\* and symbol UNIQUE
SaveSymbol(table, r) ==
    {q \in table : q.symbol_id # r.symbol_id /\ q.symbol # r.symbol} \cup {r}

\* the search with the name cached before the search has answered
SearchAndSave_cached_at_once(symbol_name, found) ==
    CASE found \in {"match", "longer"} ->
            [symbol_cache |-> symbol_cache \cup {symbol_name},
             symbols |-> SaveSymbol(symbols,
                 [symbol |-> FirstMatch(symbol_name, found),
                  symbol_id |-> SymbolId(FirstMatch(symbol_name, found))]),
             searches |-> 1, raised |-> "none", printed |-> "api",
             returns |-> FirstMatch(symbol_name, found)]
      [] found = "empty" ->
            [symbol_cache |-> symbol_cache \cup {symbol_name}, symbols |-> symbols,
             searches |-> 1, raised |-> "IndexError", printed |-> "api",
             returns |-> "none"]
      [] found = "error" ->
            [symbol_cache |-> symbol_cache \cup {symbol_name}, symbols |-> symbols,
             searches |-> 1, raised |-> "QuestradeAPIError", printed |-> "api",
             returns |-> "none"]

\* lines 102-118: the name is searched and the first match saved; returns
\* is the symbol of the record the call returns
SearchAndSave(symbol_name, found) ==
    CASE found \in {"match", "longer"} ->
            [symbol_cache |-> symbol_cache \cup {symbol_name},
             symbols |-> SaveSymbol(symbols,
                 [symbol |-> FirstMatch(symbol_name, found),
                  symbol_id |-> SymbolId(FirstMatch(symbol_name, found))]),
             searches |-> 1, raised |-> "none", printed |-> "api",
             returns |-> FirstMatch(symbol_name, found)]
      [] found = "empty" ->
            [symbol_cache |-> symbol_cache, symbols |-> symbols,
             searches |-> 1, raised |-> "IndexError", printed |-> "api",
             returns |-> "none"]
      [] found = "error" ->
            [symbol_cache |-> symbol_cache, symbols |-> symbols,
             searches |-> 1, raised |-> "QuestradeAPIError", printed |-> "api",
             returns |-> "none"]

\* get_symbol_info asking the table before the cache
get_symbol_info_store_first(symbol_name, found) ==
    IF \E r \in symbols : r.symbol = symbol_name
    THEN [symbol_cache |-> symbol_cache \cup {symbol_name}, symbols |-> symbols,
          searches |-> 0, raised |-> "none", printed |-> "database",
          returns |-> symbol_name]
    ELSE IF symbol_name \in symbol_cache
    THEN [symbol_cache |-> symbol_cache, symbols |-> symbols,
          searches |-> 0, raised |-> "none", printed |-> "cache",
          returns |-> "cached"]
    ELSE SearchAndSave(symbol_name, found)

\* Chronos.get_symbol_info: the cache, then the table, then the search;
\* printed is the source its message names; what the cache holds under a
\* name is not followed, and a cache hit returns it ("cached")
get_symbol_info(symbol_name, found) ==
    IF symbol_name \in symbol_cache
    THEN [symbol_cache |-> symbol_cache, symbols |-> symbols,
          searches |-> 0, raised |-> "none", printed |-> "cache",
          returns |-> "cached"]
    ELSE IF \E r \in symbols : r.symbol = symbol_name
    THEN [symbol_cache |-> symbol_cache \cup {symbol_name}, symbols |-> symbols,
          searches |-> 0, raised |-> "none", printed |-> "database",
          returns |-> symbol_name]
    ELSE SearchAndSave(symbol_name, found)

\* the time a candle of the interval spans, in half days
Duration(interval) == IF interval = "OneDay" THEN OneDay ELSE 0

\* the 'close' values a bar is reported with
Closes == {1, 2}

\* a bar as the provider reports it
Bar(s, interval, c) == [start |-> s, end |-> At(s + Duration(interval)), close |-> c]

\* the lists of candles the provider answers with at this time: none, the
\* bar before the running one, the running bar, or both in ascending order
Reported(interval) ==
    {<<>>}
        \cup { <<Bar(s, interval, c)>> : s \in {clock - 1, clock}, c \in Closes }
        \cup { <<Bar(clock - 1, interval, c), Bar(clock, interval, d)>> :
                  c \in Closes, d \in Closes }

\* what api.get_candles does: a response with a list of candles (or none),
\* or an error of the dispatcher
CandleAnswers(interval) ==
    { [kind |-> "candles", candles |-> b] : b \in Reported(interval) }
        \cup {[kind |-> "error", candles |-> <<>>]}

\* lines 400-401: a row of the DataFrame built from the response
Row(symbol, interval, c) ==
    [symbol |-> symbol, interval |-> interval, start |-> c.start,
     end |-> c.end, close |-> c.close]

\* PRIMARY KEY (symbol, start, interval)
SameKey(r, q) ==
    r.symbol = q.symbol /\ r.start = q.start /\ r.interval = q.interval

\* an INSERT into a table that has no primary key
Insert_without_key(table, r) == table \cup {r}

\* lines 405-421: INSERT OR REPLACE INTO candles
InsertOrReplace(table, r) == {q \in table : ~SameKey(q, r)} \cup {r}

\* lines 404-423: the rows of the response are written one after the other
RECURSIVE SaveCandles(_, _, _, _)
SaveCandles(table, symbol, interval, batch) ==
    IF batch = <<>>
    THEN table
    ELSE SaveCandles(InsertOrReplace(table, Row(symbol, interval, Head(batch))),
                     symbol, interval, Tail(batch))

\* WHERE symbol = ? AND interval = ?
Series(table, symbol, interval) ==
    {r \in table : r.symbol = symbol /\ r.interval = interval}

\* the place of an 'end' text in ORDER BY end: timestamps by their reading,
\* a text that starts with a letter after every timestamp
EndOrder(e) == IF e.kind = "time" THEN e.wall ELSE MaxClock + OneDay + 1

\* lines 335-341: SELECT end ... ORDER BY end DESC LIMIT 1
last_end(table, symbol, interval) ==
    CHOOSE e \in {r.end : r \in Series(table, symbol, interval)} :
        \A r \in Series(table, symbol, interval) : EndOrder(r.end) <= EndOrder(e)

\* the difference of line 357 with a cache counted stale from half a day on
days_diff_half_day(last, end_time) ==
    IF last.kind = "time"
    THEN IF end_time - last.wall >= 1 THEN 1 ELSE 0
    ELSE 1

\* lines 345-361: (end_time - last_end_dt).days, both taken as readings of
\* one clock, and 1 when the text is no timestamp
days_diff(last, end_time) ==
    IF last.kind = "time"
    THEN (end_time - last.wall) \div OneDay
    ELSE 1

\* the full range started at the cursor instead of days before now
FullRangeStart_from_cursor(table, symbol, days, interval, end_time) ==
    IF Series(table, symbol, interval) # {}
    THEN last_end(table, symbol, interval)
    ELSE At(end_time - days * OneDay)

\* the full range as one day whatever days is
FullRangeStart_one_day(table, symbol, days, interval, end_time) ==
    At(end_time - OneDay)

\* lines 371-373 and 379-380: end_time - timedelta(days=days), formatted
FullRangeStart(table, symbol, days, interval, end_time) ==
    At(end_time - days * OneDay)

\* the stale range started days before now instead of at the cursor
StaleRangeStart_full(table, symbol, days, interval, end_time) ==
    At(end_time - days * OneDay)

\* line 365: start_time_str = last_end
StaleRangeStart(table, symbol, days, interval, end_time) ==
    last_end(table, symbol, interval)

\* lines 322-381: whether to fetch, and from when
Plan(table, symbol, days, interval, force_refresh, end_time) ==
    IF force_refresh
    THEN [state |-> "ForceRefresh", fetch |-> TRUE,
          start |-> FullRangeStart(table, symbol, days, interval, end_time)]
    ELSE IF Series(table, symbol, interval) = {}
    THEN [state |-> "NoData", fetch |-> TRUE,
          start |-> FullRangeStart(table, symbol, days, interval, end_time)]
    ELSE IF days_diff(last_end(table, symbol, interval), end_time) > 0
    THEN [state |-> "Stale", fetch |-> TRUE,
          start |-> StaleRangeStart(table, symbol, days, interval, end_time)]
    ELSE [state |-> "Fresh", fetch |-> FALSE, start |-> At(0)]

\* lines 428-437: SELECT ... ORDER BY start, as fetchall() returns it
RECURSIVE OrderByStart(_)
OrderByStart(rows) ==
    IF rows = {}
    THEN <<>>
    ELSE LET r == CHOOSE r \in rows : \A q \in rows : r.start <= q.start
         IN <<r>> \o OrderByStart(rows \ {r})

\* lines 446-449: pd.to_datetime(df[date_col], utc=True) over the rows
\* read; a text that is no timestamp makes it raise
Converts(rows) == \A r \in rows : r.end.kind = "time"

\* Chronos.get_candles, with what the symbol search and the candle request
\* do when they are made: the stores after the call, the candle requests
\* the call made and what it returned
get_candles(symbol, days, interval, force_refresh, found, answer) ==
    LET info == get_symbol_info(symbol, found)
        end_time == clock
        plan == Plan(candles, symbol, days, interval, force_refresh, end_time)
        call == [symbol |-> symbol, interval |-> interval, days |-> days,
                 force_refresh |-> force_refresh,
                 rows_before |-> Cardinality(candles), state |-> "none",
                 fetched |-> <<>>, candles_response |-> <<>>,
                 outcome |-> "raised", all_candles_data |-> <<>>]
        sent == [call EXCEPT !.state = plan.state, !.fetched =
                    <<[symbol_id |-> SymbolId(symbol), start_time |-> plan.start,
                       end_time |-> At(end_time), interval |-> interval]>>]
        saved == SaveCandles(candles, symbol, interval, answer.candles)
    IN
    IF info.raised # "none"
    THEN [symbol_cache |-> info.symbol_cache, symbols |-> info.symbols,
          candles |-> candles, call |-> call]
    ELSE IF ~plan.fetch
    THEN [symbol_cache |-> info.symbol_cache, symbols |-> info.symbols,
          candles |-> candles,
          call |-> IF Converts(Series(candles, symbol, interval))
                   THEN [call EXCEPT !.state = plan.state, !.outcome = "returned",
                             !.all_candles_data =
                                 OrderByStart(Series(candles, symbol, interval))]
                   ELSE [call EXCEPT !.state = plan.state, !.outcome = "ValueError"]]
    ELSE IF answer.kind = "error"
    THEN [symbol_cache |-> info.symbol_cache, symbols |-> info.symbols,
          candles |-> candles, call |-> sent]
    ELSE [symbol_cache |-> info.symbol_cache, symbols |-> info.symbols,
          candles |-> saved,
          call |-> IF Converts(Series(saved, symbol, interval))
                   THEN [sent EXCEPT !.candles_response = answer.candles,
                             !.outcome = "returned",
                             !.all_candles_data =
                                 OrderByStart(Series(saved, symbol, interval))]
                   ELSE [sent EXCEPT !.candles_response = answer.candles,
                             !.outcome = "ValueError"]]

\* the symbol search is made on a miss of the cache and of the table
Searched(symbol) ==
    symbol \notin symbol_cache /\ ~(\E r \in symbols : r.symbol = symbol)

\* a bar the provider reports with an 'end' that is no timestamp
OddBar(s, interval, c) == [start |-> s, end |-> Unparseable, close |-> c]

\* the answers of a provider that may also report such a bar
OddCandleAnswers(interval) ==
    CandleAnswers(interval)
        \cup { [kind |-> "candles", candles |-> <<OddBar(s, interval, 1)>>] :
                  s \in {clock - 1, clock} }

\* a caller invokes get_candles(symbol, days, interval, force_refresh); the
\* symbol search and the candle request answer when the call makes them,
\* the provider being one that may report an odd bar or one that does not
GetCandlesAnswered(odd) ==
    /\ \E symbol \in CandleSymbols, days \in DaysArgs, interval \in Intervals,
          force_refresh \in BOOLEAN :
        \E found \in IF Searched(symbol) THEN SearchOutcomes ELSE {"match"} :
        \E answer \in IF found = "match"
                          /\ Plan(candles, symbol, days, interval,
                                  force_refresh, clock).fetch
                       THEN IF odd THEN OddCandleAnswers(interval)
                                   ELSE CandleAnswers(interval)
                       ELSE {[kind |-> "error", candles |-> <<>>]} :
        \E after \in {get_candles(symbol, days, interval, force_refresh,
                                  found, answer)} :
            /\ Cardinality(after.candles) <= MaxRows
            /\ symbol_cache' = after.symbol_cache
            /\ symbols' = after.symbols
            /\ candles' = after.candles
            /\ candle_call' = after.call
            /\ market_db' = IF after.call.state = "none" THEN market_db
                            ELSE "table"
            /\ stale' = StaleAfter(after.symbols,
                                   IF Searched(symbol) /\ found = "match"
                                   THEN {symbol} ELSE {})
    /\ search_call' = NoSearchCall
    /\ UNCHANGED <<clock, endpoint, now, limiter, waited, config, auth, calls,
                   authlog, categorized, symbol_call, txn, seen,
                   invalidated, stale_call, age_call>>

\* get_candles with a provider whose candles end at timestamps
GetCandles == GetCandlesAnswered(FALSE)

\* get_candles with a provider that may report an odd bar
GetCandlesOdd == GetCandlesAnswered(TRUE)

\* half a day passes, the caller done with what the last call returned
ClockTick ==
    /\ clock < MaxClock
    /\ clock' = clock + 1
    /\ candle_call' = NoCandleCall
    /\ search_call' = NoSearchCall
    /\ UNCHANGED <<candles, symbol_cache, symbols, stale, market_db, endpoint,
                   now, limiter, waited, config, auth, calls, authlog,
                   categorized, symbol_call, txn, seen,
                   invalidated, stale_call, age_call>>

\* a Chronos object over an authenticated QuestradeAPI, its databases empty
ChronosStart ==
    /\ endpoint = <<"", "v1", "markets", "quotes">>
    /\ now = 0
    /\ LimiterInit(0)
    /\ waited = NoCall
    /\ max_retries = 0
    /\ enforce_rate_limit = TRUE
    /\ session = TokenResponse(1)
    /\ token_file = [state |-> "saved", data |-> TokenResponse(1)]
    /\ provider = 1
    /\ CallsInit

ChronosNext ==
    \/ ClockTick
    \/ GetCandles

SpecChronos == ChronosStart /\ [][ChronosNext]_vars

CursorNext ==
    \/ ClockTick
    \/ GetCandlesOdd

\* get_candles over a store whose 'end' texts may be no timestamps
SpecCursor == ChronosStart /\ [][CursorNext]_vars

\* ----- get_updated_candles

\* line 528: timedelta(days=90)
NinetyDays == 90 * OneDay

\* a request that always starts ninety days back
UpdateRangeStart_ninety_days(table, symbol, interval, end_time) ==
    At(end_time - NinetyDays)

\* lines 505-532: start_time_str, the last 'end' of the rows there are, or
\* ninety days before end_time when there are none
UpdateRangeStart(table, symbol, interval, end_time) ==
    IF Series(table, symbol, interval) # {}
    THEN last_end(table, symbol, interval)
    ELSE At(end_time - NinetyDays)

\* Chronos.get_updated_candles, with what the symbol search and the candle
\* request do when they are made: the stores after the call, the candle
\* request the call made and what it returned
get_updated_candles(symbol, interval, as_dataframe, found, answer) ==
    LET info == get_symbol_info(symbol, found)
        end_time == clock
        data_exists == Series(candles, symbol, interval) # {}
        call == [symbol |-> symbol, interval |-> interval, days |-> 0,
                 force_refresh |-> FALSE,
                 rows_before |-> Cardinality(candles), state |-> "none",
                 fetched |-> <<>>, candles_response |-> <<>>,
                 outcome |-> "raised", all_candles_data |-> <<>>]
        sent == [call EXCEPT
                    !.state = IF data_exists THEN "DataExists" ELSE "NoData",
                    !.fetched =
                        <<[symbol_id |-> SymbolId(symbol),
                           start_time |-> UpdateRangeStart(candles, symbol,
                                                           interval, end_time),
                           end_time |-> At(end_time), interval |-> interval]>>]
        saved == SaveCandles(candles, symbol, interval, answer.candles)
    IN
    IF info.raised # "none"
    THEN [symbol_cache |-> info.symbol_cache, symbols |-> info.symbols,
          candles |-> candles, call |-> call]
    ELSE IF answer.kind = "error"
    THEN [symbol_cache |-> info.symbol_cache, symbols |-> info.symbols,
          candles |-> candles, call |-> sent]
    ELSE [symbol_cache |-> info.symbol_cache, symbols |-> info.symbols,
          candles |-> saved,
          call |-> IF as_dataframe /\ ~Converts(Series(saved, symbol, interval))
                   THEN [sent EXCEPT !.candles_response = answer.candles,
                             !.outcome = "ValueError"]
                   ELSE [sent EXCEPT !.candles_response = answer.candles,
                             !.outcome = "returned",
                             !.all_candles_data =
                                 OrderByStart(Series(saved, symbol, interval))]]

\* a caller invokes get_updated_candles(symbol, interval, as_dataframe); the
\* symbol search and the candle request answer when the call makes them
GetUpdatedCandles ==
    /\ \E symbol \in CandleSymbols, interval \in Intervals,
          as_dataframe \in BOOLEAN :
        \E found \in IF Searched(symbol) THEN SearchOutcomes ELSE {"match"} :
        \E answer \in IF found = "match" THEN CandleAnswers(interval)
                       ELSE {[kind |-> "error", candles |-> <<>>]} :
        \E after \in {get_updated_candles(symbol, interval, as_dataframe,
                                          found, answer)} :
            /\ Cardinality(after.candles) <= MaxRows
            /\ symbol_cache' = after.symbol_cache
            /\ symbols' = after.symbols
            /\ candles' = after.candles
            /\ candle_call' = after.call
            /\ market_db' = IF after.call.state = "none" THEN market_db
                            ELSE "table"
            /\ stale' = StaleAfter(after.symbols,
                                   IF Searched(symbol) /\ found = "match"
                                   THEN {symbol} ELSE {})
    /\ search_call' = NoSearchCall
    /\ UNCHANGED <<clock, endpoint, now, limiter, waited, config, auth, calls,
                   authlog, categorized, symbol_call, txn, seen,
                   invalidated, stale_call, age_call>>

UpdatedNext ==
    \/ ClockTick
    \/ GetUpdatedCandles

\* a Chronos object whose callers ask for updated candles as time passes
SpecUpdated == ChronosStart /\ [][UpdatedNext]_vars

\* ----- search_candles_from_db

\* the dates a search is bounded by, the day the clock began and the next;
\* a bound is a date or missing
SearchDates == {0, 1}
Bounds == {<<>>} \cup { <<d>> : d \in SearchDates }

\* lines 641 and 645: the first instant of a date and the last before the
\* next, as the bounds are written
DayStart(d) == d * OneDay
DayEnd(d) == d * OneDay + OneDay - 1

\* a search that leaves out the candles that start on a bound
search_candles_from_db_exclusive(symbol, start_date, end_date, interval) ==
    IF market_db # "table"
    THEN <<>>
    ELSE OrderByStart({r \in Series(candles, symbol, interval) :
            /\ start_date # <<>> => r.start > DayStart(start_date[1])
            /\ end_date # <<>> => r.start < DayEnd(end_date[1])})

\* Chronos.search_candles_from_db: the candles it returns
search_candles_from_db(symbol, start_date, end_date, interval) ==
    IF market_db # "table"
    THEN <<>>
    ELSE OrderByStart({r \in Series(candles, symbol, interval) :
            /\ start_date # <<>> => r.start >= DayStart(start_date[1])
            /\ end_date # <<>> => r.start <= DayEnd(end_date[1])})

\* a caller invokes search_candles_from_db(symbol, start_date, end_date,
\* interval), done with what the last call returned
SearchCandlesFromDb ==
    /\ \E symbol \in CandleSymbols, interval \in Intervals,
          start_date \in Bounds, end_date \in Bounds :
        search_call' = [symbol |-> symbol, interval |-> interval,
                        start_date |-> start_date, end_date |-> end_date,
                        candles |-> search_candles_from_db(symbol, start_date,
                                                           end_date, interval)]
    /\ candle_call' = NoCandleCall
    /\ UNCHANGED <<clock, candles, symbol_cache, symbols, stale, market_db,
                   categorized, symbol_call, txn, seen, invalidated,
                   stale_call, age_call, endpoint, now, limiter, waited,
                   config, auth, calls, authlog>>

\* a file data/market_data.db that holds no table is put in place
CreateDatabaseFile ==
    /\ market_db = "absent"
    /\ market_db' = "empty"
    /\ UNCHANGED <<clock, candles, symbol_cache, symbols, candle_call, stale,
                   probes, endpoint, now, limiter, waited, config, auth, calls,
                   authlog>>

SearchNext ==
    \/ ClockTick
    \/ GetUpdatedCandles
    \/ CreateDatabaseFile
    \/ SearchCandlesFromDb

\* a Chronos object whose callers update candles and search the stored ones
SpecSearch == ChronosStart /\ [][SearchNext]_vars

\* ----- the age of the cursor across time zones

\* the UTC offsets a stored 'end' carries and a local zone has, in half
\* days: twelve hours behind UTC, UTC, twelve hours ahead
Offsets == {-1, 0, 1}

\* lines 349-357 for a cursor that carries a UTC offset and the naive
\* reading of datetime.now(): replace(tzinfo=...) gives the reading the
\* cursor's offset without changing it, and the difference of two
\* datetimes of one tzinfo is the difference of their readings
days_diff_aware(last, last_offset, end_time, local_offset) ==
    (end_time - last) \div OneDay

\* get_candles computes the age of a cursor read as `last` at offset
\* last_offset, on a machine whose clock reads end_time in a zone at
\* local_offset
ComputeAge ==
    /\ \E last \in 0..MaxClock, last_offset \in Offsets,
          end_time \in 0..MaxClock, local_offset \in Offsets :
        age_call' = [last_end |-> last, last_offset |-> last_offset,
                     end_time |-> end_time, local_offset |-> local_offset,
                     days_diff |-> days_diff_aware(last, last_offset,
                                                   end_time, local_offset),
                     computed |-> TRUE]
    /\ UNCHANGED <<chronos, categorized, symbol_call, txn, seen, invalidated,
                   stale_call, search_call, endpoint, now, limiter, waited,
                   config, auth, calls, authlog>>

AgeNext ==
    \/ ComputeAge

\* the age computation of get_candles over cursors and clocks of any zone
SpecAge == ChronosStart /\ [][AgeNext]_vars

\* a caller invokes get_symbol_info(symbol_name); the symbol search answers
\* when the call makes it
GetSymbolInfo ==
    /\ stale_call.state \in {"none", "returned", "raised"}
    /\ \E symbol_name \in Symbols :
        \E found \in IF Searched(symbol_name)
                      THEN SymbolSearchOutcomes(symbol_name)
                      ELSE {"match"} :
        \E after \in {get_symbol_info(symbol_name, found)} :
            /\ symbol_cache' = after.symbol_cache
            /\ symbols' = after.symbols
            /\ symbol_call' = [symbol |-> symbol_name, printed |-> after.printed,
                               searches |-> after.searches, raised |-> after.raised,
                               returns |-> after.returns]
            /\ stale' = StaleAfter(after.symbols,
                                   IF after.searches = 1 /\ after.raised = "none"
                                   THEN {after.returns} ELSE {})
            /\ invalidated' = invalidated \ {symbol_name}
    /\ stale_call' = NoStaleCall
    /\ UNCHANGED <<clock, candles, candle_call, market_db, categorized, txn,
                   seen, lookups, endpoint, now, limiter, waited, config,
                   auth, calls, authlog>>

\* Chronos.clear_symbol_cache, the caller done with what the last call
\* returned
ClearSymbolCache ==
    /\ stale_call.state \in {"none", "returned", "raised"}
    /\ symbol_cache' = {}
    /\ symbol_call' = NoSymbolCall
    /\ invalidated' = invalidated \cup symbol_cache
    /\ UNCHANGED <<clock, candles, symbols, candle_call, market_db, stale,
                   categorized, txn, seen, stale_call, lookups, endpoint, now,
                   limiter, waited, config, auth, calls, authlog>>

SymbolsNext ==
    \/ GetSymbolInfo
    \/ ClearSymbolCache

\* a Chronos object whose callers ask for symbols and clear its cache
SpecSymbols == ChronosStart /\ [][SymbolsNext]_vars

\* ----- the symbol table kept up to date

\* the orders in which a SELECT without ORDER BY may list a set of names
Orders(S) ==
    {o \in [1..Cardinality(S) -> S] :
        \A i, j \in 1..Cardinality(S) : o[i] = o[j] => i = j}

\* symbol_data_list as a caller may compose it: one record of any symbol
\* under any id, or the records of two symbols as the provider lists them
Listings == [symbol : Symbols, symbol_id : {SymbolId(n) : n \in Symbols}]
SymbolLists ==
    { <<r>> : r \in Listings }
        \cup { <<[symbol |-> p[1], symbol_id |-> SymbolId(p[1])],
                 [symbol |-> p[2], symbol_id |-> SymbolId(p[2])]>> :
                   p \in {q \in Symbols \X Symbols : q[1] # q[2]} }

\* lines 177-182: executemany writes the records in the order of the list
RECURSIVE SaveAll(_, _)
SaveAll(table, symbol_data_list) ==
    IF symbol_data_list = <<>> THEN table
    ELSE SaveAll(SaveSymbol(table, Head(symbol_data_list)),
                 Tail(symbol_data_list))

\* no update_stale_symbols call is under way
NotUpdating == stale_call.state \in {"none", "returned", "raised"}

\* a caller invokes bulk_insert_symbols(symbol_data_list): the records are
\* written and committed together, then each is cached under its symbol
BulkInsertSymbols ==
    /\ NotUpdating
    /\ \E symbol_data_list \in SymbolLists :
        \E after \in {SaveAll(symbols, symbol_data_list)} :
            /\ symbols' = after
            /\ symbol_cache' = symbol_cache
                    \cup {symbol_data_list[i].symbol :
                              i \in 1..Len(symbol_data_list)}
            /\ stale' = StaleAfter(after,
                            {symbol_data_list[i].symbol :
                                i \in 1..Len(symbol_data_list)})
    /\ symbol_call' = NoSymbolCall
    /\ stale_call' = NoStaleCall
    /\ UNCHANGED <<clock, candles, candle_call, market_db, categorized, txn,
                   seen, invalidated, lookups, endpoint, now, limiter, waited,
                   config, auth, calls, authlog>>

\* days_threshold days have passed since a row was written, the caller done
\* with what the last call returned
GrowStale ==
    /\ NotUpdating
    /\ \E r \in symbols :
        /\ r.symbol \notin stale
        /\ stale' = stale \cup {r.symbol}
    /\ symbol_call' = NoSymbolCall
    /\ stale_call' = NoStaleCall
    /\ UNCHANGED <<clock, candles, symbol_cache, symbols, candle_call,
                   market_db, categorized, txn, seen, invalidated, lookups,
                   endpoint, now, limiter, waited, config, auth, calls,
                   authlog>>

\* lines 188-202: a caller invokes update_stale_symbols(days_threshold); the
\* symbols of the rows older than the cutoff are selected
UpdateStaleSymbols ==
    /\ NotUpdating
    /\ \E stale_symbols \in Orders(stale) :
        stale_call' = [state |-> IF stale_symbols = <<>> THEN "returned"
                                 ELSE "delete",
                       selected |-> stale, todo |-> stale_symbols,
                       before |-> symbols, searched |-> <<>>,
                       raised |-> "none"]
    /\ symbol_call' = NoSymbolCall
    /\ UNCHANGED <<chronos, categorized, txn, seen, invalidated, lookups,
                   endpoint, now, limiter, waited, config, auth, calls,
                   authlog>>

\* lines 204-210: the row of the next stale symbol is deleted, and the
\* deletion committed
DeleteStale ==
    /\ stale_call.state = "delete"
    /\ symbols' = {r \in symbols : r.symbol # Head(stale_call.todo)}
    /\ stale' = stale \ {Head(stale_call.todo)}
    /\ stale_call' = [stale_call EXCEPT !.state = "fetch"]
    /\ UNCHANGED <<clock, candles, symbol_cache, candle_call, market_db,
                   categorized, symbol_call, txn, seen, invalidated, lookups,
                   endpoint, now, limiter, waited, config, auth, calls,
                   authlog>>

\* line 213: get_symbol_info(symbol) is called for it; what it raises leaves
\* update_stale_symbols, and otherwise the loop goes on
RefetchStale ==
    /\ stale_call.state = "fetch"
    /\ \E symbol \in {Head(stale_call.todo)} :
        \E found \in IF Searched(symbol) THEN SymbolSearchOutcomes(symbol)
                      ELSE {"match"} :
        \E after \in {get_symbol_info(symbol, found)} :
            /\ symbol_cache' = after.symbol_cache
            /\ symbols' = after.symbols
            /\ stale' = StaleAfter(after.symbols,
                            IF after.searches = 1 /\ after.raised = "none"
                            THEN {after.returns} ELSE {})
            /\ stale_call' =
                 [stale_call EXCEPT
                    !.searched = IF after.searches = 1 THEN Append(@, symbol)
                                 ELSE @,
                    !.raised = after.raised,
                    !.todo = IF after.raised = "none" THEN Tail(@) ELSE @,
                    !.state = IF after.raised # "none" THEN "raised"
                              ELSE IF Tail(stale_call.todo) = <<>>
                              THEN "returned" ELSE "delete"]
    /\ UNCHANGED <<clock, candles, candle_call, market_db, categorized,
                   symbol_call, txn, seen, invalidated, lookups, endpoint,
                   now, limiter, waited, config, auth, calls, authlog>>

StoreNext ==
    \/ GetSymbolInfo
    \/ BulkInsertSymbols
    \/ GrowStale
    \/ UpdateStaleSymbols
    \/ DeleteStale
    \/ RefetchStale

\* a Chronos object whose callers resolve symbols, insert lists of them and
\* refresh the rows that have grown old
SpecStore == ChronosStart /\ [][StoreNext]_vars

\* ----- batch writes, one statement at a time

\* the methods that write a batch
BatchOps == {"get_candles", "get_updated_candles", "bulk_insert_symbols"}

\* the batches: the candles of a response, or symbol_data_list
Batches(op) ==
    IF op = "bulk_insert_symbols"
    THEN { <<[symbol |-> n, symbol_id |-> SymbolId(n)]>> : n \in Symbols }
            \cup { <<[symbol |-> p[1], symbol_id |-> SymbolId(p[1])],
                     [symbol |-> p[2], symbol_id |-> SymbolId(p[2])]>> :
                       p \in {q \in Symbols \X Symbols : q[1] # q[2]} }
    ELSE { <<Row("AAPL", "OneDay", Bar(s, "OneDay", c))>> :
              s \in {clock - 1, clock}, c \in Closes }
            \cup { <<Row("AAPL", "OneDay", Bar(clock - 1, "OneDay", c)),
                     Row("AAPL", "OneDay", Bar(clock, "OneDay", d))>> :
                       c \in Closes, d \in Closes }

\* the table the method writes, as committed
Store(op) == IF op = "bulk_insert_symbols" THEN symbols ELSE candles

\* one INSERT OR REPLACE of the method
Insert(op, table, r) ==
    IF op = "bulk_insert_symbols" THEN SaveSymbol(table, r)
    ELSE InsertOrReplace(table, r)

\* a connection in autocommit mode: each statement is committed as it runs
Execute_autocommit(op, committed, image, r) ==
    [committed |-> Insert(op, committed, r), image |-> Insert(op, image, r)]

\* cursor.execute on a connection with the default isolation level: the
\* statement opens a transaction or joins the open one, and what it writes
\* is in the connection's image of the table only
Execute(op, committed, image, r) ==
    [committed |-> committed, image |-> Insert(op, image, r)]

\* lines 171-176, 397-404, 542-549: the method has its batch and is about
\* to write it
BeginBatch ==
    /\ txn.state \in {"none", "committed", "failed"}
    /\ \E op \in BatchOps : \E batch \in Batches(op) :
          /\ txn' = [op |-> op, state |-> "open", batch |-> batch,
                     todo |-> batch, image |-> Store(op), base |-> Store(op),
                     cache |-> symbol_cache]
          /\ market_db' = IF op = "bulk_insert_symbols" THEN market_db
                          ELSE "table"
    /\ UNCHANGED <<clock, candles, symbol_cache, symbols, candle_call, stale,
                   categorized, symbol_call, seen, invalidated,
                   stale_call, lookups, endpoint, now, limiter, waited,
                   config, auth, calls, authlog>>

\* lines 177-182, 405-421, 550-566: the next record is written
WriteRow ==
    /\ txn.state = "open" /\ txn.todo # <<>>
    /\ \E after \in {Execute(txn.op, Store(txn.op), txn.image, Head(txn.todo))} :
        /\ txn' = [txn EXCEPT !.image = after.image, !.todo = Tail(@)]
        /\ IF txn.op = "bulk_insert_symbols"
           THEN symbols' = after.committed /\ UNCHANGED candles
           ELSE candles' = after.committed /\ UNCHANGED symbols
        /\ stale' = IF txn.op = "bulk_insert_symbols"
                    THEN StaleAfter(after.committed,
                             IF after.committed = symbols THEN {}
                             ELSE {Head(txn.todo).symbol})
                    ELSE stale
    /\ UNCHANGED <<clock, symbol_cache, candle_call, market_db, categorized,
                   symbol_call, seen, invalidated, stale_call, lookups,
                   endpoint, now, limiter, waited, config, auth, calls,
                   authlog>>

\* writing the next record raises: `with self.conn` rolls back (line 175);
\* the connection of get_candles and get_updated_candles is neither
\* committed nor closed and its transaction is rolled back when the
\* connection is finalized
FailRow ==
    /\ txn.state = "open" /\ txn.todo # <<>>
    /\ txn' = [txn EXCEPT !.state = "failed", !.image = Store(txn.op)]
    /\ UNCHANGED <<chronos, categorized, symbol_call, seen, invalidated,
                   stale_call, lookups, endpoint, now, limiter, waited,
                   config, auth, calls, authlog>>

\* lines 175 and 184-186, 423, 568: the transaction is committed, and
\* bulk_insert_symbols then caches each symbol of the list
Commit ==
    /\ txn.state = "open" /\ txn.todo = <<>>
    /\ txn' = [txn EXCEPT !.state = "committed"]
    /\ IF txn.op = "bulk_insert_symbols"
       THEN /\ symbols' = txn.image
            /\ symbol_cache' = symbol_cache
                    \cup {txn.batch[i].symbol : i \in 1..Len(txn.batch)}
            /\ stale' = StaleAfter(txn.image,
                           {txn.batch[i].symbol : i \in 1..Len(txn.batch)})
            /\ UNCHANGED candles
       ELSE /\ candles' = txn.image
            /\ UNCHANGED <<symbols, symbol_cache, stale>>
    /\ UNCHANGED <<clock, candle_call, market_db, categorized, symbol_call,
                   seen, invalidated, stale_call, lookups, endpoint, now,
                   limiter, waited, config, auth, calls, authlog>>

\* another connection reads both tables: it gets what is committed
Read ==
    /\ seen' = [candles |-> candles, symbols |-> symbols]
    /\ UNCHANGED <<chronos, categorized, symbol_call, txn, invalidated,
                   stale_call, lookups, endpoint, now, limiter, waited,
                   config, auth, calls, authlog>>

BatchNext ==
    \/ BeginBatch
    \/ WriteRow
    \/ FailRow
    \/ Commit
    \/ Read

\* a Chronos object writing batches while another connection reads
SpecBatch == ChronosStart /\ [][BatchNext]_vars

\* ================================================================= claims

\* the entries of a window, and the oldest of them
Entries(h) == { h[i] : i \in 1..Len(h) }
Oldest(h) == CHOOSE x \in Entries(h) : \A y \in Entries(h) : x <= y
SecondFull(c) == Len(second_history[c]) = RATE_LIMITS(c)[1]
HourFull(c) == Len(hour_history[c]) = RATE_LIMITS(c)[2]

\* what the two local windows alone ask for
LocalWindowWait(c) ==
    IF SecondFull(c) /\ now - Oldest(second_history[c]) < OneSecond
    THEN OneSecond - (now - Oldest(second_history[c]))
    ELSE IF HourFull(c) /\ now - Oldest(hour_history[c]) < OneHour
    THEN OneHour - (now - Oldest(hour_history[c]))
    ELSE 0

\* a direct wait_if_needed(c) call has just returned
Waited(c) == waited # NoCall /\ waited.category = c

\* C1 as stated: with server-reported remaining = 0 and reset time resetAt,
\* wait_if_needed returns exactly max(0, resetAt - now), whatever the local
\* windows hold.
C1_ServerStateAlone ==
    \A c \in ApiCategory :
        Waited(c) /\ remaining[c] = 0
            => waited.wait_time = Max(0, reset_time[c] - now)

\* C1 amended: with server-reported remaining = 0, wait_if_needed returns
\* resetAt - now whenever resetAt > now, whether the local windows are full or
\* not; once resetAt <= now the server state asks for no wait and the result
\* is the wait the local windows ask for.
C1_ServerStateFirst ==
    \A c \in ApiCategory :
        Waited(c) /\ remaining[c] = 0
            => waited.wait_time =
                    IF reset_time[c] > now
                    THEN reset_time[c] - now
                    ELSE LocalWindowWait(c)

\* C1 witness: remaining = 0, the reset time still ahead, and a full
\* per-second window asking for a different wait
C1_Witness ==
    \E c \in ApiCategory :
        /\ Waited(c) /\ remaining[c] = 0 /\ reset_time[c] > now
        /\ SecondFull(c)
        /\ LocalWindowWait(c) > 0
        /\ LocalWindowWait(c) # reset_time[c] - now

\* C2: with server-reported remaining > 0 and the last L recorded requests in
\* the per-second window, wait_if_needed returns 1 - (now - oldest), a value
\* > 0 and <= 1 second, when all of them are less than a second old, and 0
\* when the oldest is a second old or more and the per-hour window is not
\* saturated.
C2_SecondWindow ==
    \A c \in ApiCategory :
        Waited(c) /\ remaining[c] > 0 /\ SecondFull(c)
            => LET age == now - Oldest(second_history[c]) IN
               /\ age < OneSecond
                    => /\ waited.wait_time = OneSecond - age
                       /\ waited.wait_time > 0
                       /\ waited.wait_time <= OneSecond
               /\ age >= OneSecond /\ ~HourFull(c)
                    => waited.wait_time = 0

\* C2 witness: a full per-second window whose oldest entry is half a second
\* old, answered with a wait of half a second
C2_Witness ==
    \E c \in ApiCategory :
        /\ Waited(c) /\ remaining[c] > 0 /\ SecondFull(c)
        /\ now - Oldest(second_history[c]) = 1
        /\ waited.wait_time = OneSecond - 1

\* the newest entry of a window, and its last n entries
Newest(h) == CHOOSE x \in Entries(h) : \A y \in Entries(h) : x >= y
Last(h, n) == SubSeq(h, Len(h) - n + 1, Len(h))

\* the last L + 1 recorded requests of category c lie within less than a
\* second, L being the per-second limit of c
Burst(c) ==
    LET L == RATE_LIMITS(c)[1]
        h == hour_history[c] IN
    /\ Len(h) > L
    /\ Newest(Last(h, L + 1)) - Oldest(Last(h, L + 1)) < OneSecond

\* C3 as stated: with enforcement enabled and calls running concurrently on
\* one limiter, a record_request made by a call never brings the recorded
\* requests of its category to more than L within less than a second:
\* between a caller's wait_if_needed and its record_request no other caller
\* gets through.
C3_AggregateRate ==
    [][\A t \in Threads :
          records'[t] = records[t] + 1 /\ ~Burst(Category)
              => ~Burst(Category)']_vars

\* C4 as stated: a 401 response makes the call run authenticate() once and
\* re-issue the request once, so a call never ends on the error of a 401
\* response without an authenticate() call and a second request.
C4_ReauthenticateOn401 ==
    \A t \in Threads :
        pc[t] = "done" /\ result[t].status = 401
            => auths[t] >= 1 /\ http[t] >= 2

\* how far a call has got: its retry count first, then its place in the attempt
Place(p) ==
    CASE p = "auth" -> 1 [] p = "gate" -> 2 [] p = "record" -> 3
      [] p = "append" -> 4 [] p = "send" -> 5 [] p = "inflight" -> 6
      [] p = "status" -> 7 [] p = "sleep" -> 8 [] OTHER -> 0
Progress(t) == retry_count[t] * 8 + Place(pc[t])
Running(t) == pc[t] \notin {"idle", "done"}

\* C5: for every max_retries >= 0, whatever the server answers and the
\* limiter holds, a call sleeps at most max_retries times and sends at most
\* max_retries + 1 requests; throttle waits and 429 retries both count on the
\* one retry counter, which never exceeds max_retries and only increases;
\* and the call terminates: each of its steps ends it or moves it forward in
\* a progress measure bounded by (max_retries + 1) * 8.
C5_BoundedRetry ==
    /\ [](\A t \in Threads :
            /\ retry_count[t] <= max_retries
            /\ sleeps[t] <= max_retries
            /\ http[t] <= max_retries + 1
            /\ sleeps[t] = retry_count[t] + (IF pc[t] = "sleep" THEN 1 ELSE 0)
            /\ http[t] <= retry_count[t] + 1
            /\ Progress(t) <= (max_retries + 1) * 8)
    /\ [][\A t \in Threads :
            Running(t) /\ pc'[t] # pc[t]
                => \/ pc'[t] = "done" /\ retry_count'[t] = retry_count[t]
                   \/ /\ Running(t)'
                      /\ Progress(t)' > Progress(t)
                      /\ retry_count'[t] >= retry_count[t]]_vars

\* C5 witness: a call with max_retries > 0 that ended after max_retries
\* sleeps and max_retries + 1 requests
C5_Witness ==
    \E t \in Threads :
        /\ pc[t] = "done" /\ max_retries > 0
        /\ sleeps[t] = max_retries
        /\ http[t] = max_retries + 1

\* C6 as stated: a call fails with a rate-limit error only when its retry
\* count has reached max_retries, and the error carries a wait that is a
\* number >= 0: while retries remain, a 429 response, with or without
\* rate-limit headers, is retried and not surfaced.
C6_OnlyWhenExhausted ==
    \A t \in Threads :
        pc[t] = "done" /\ result[t].kind = "RateLimit"
            => /\ retry_count[t] = max_retries
               /\ result[t].retry_after >= 0

\* C7: with enforcement enabled, when wait_if_needed answers a wait > 0 at
\* a retry count equal to max_retries, the call fails there with a
\* rate-limit error of code 1006 and status 429 that carries that wait, and
\* the failing attempt sends no request and records none; a call failing so
\* at retry count 0 has sent and recorded nothing at all.
C7_ThrottledAtLimit ==
    /\ [][\A t \in Threads :
            /\ pc[t] = "gate" /\ pc'[t] # "gate"
            /\ enforce_rate_limit
            /\ wait_if_needed(Category) > 0
            /\ retry_count[t] = max_retries
            => /\ pc'[t] = "done"
               /\ result'[t] = QuestradeRateLimitError("1006", 429, wait_if_needed(Category))
               /\ http'[t] = http[t]
               /\ records'[t] = records[t]
               /\ UNCHANGED limiter]_vars
    /\ [](\A t \in Threads :
            /\ pc[t] = "done" /\ result[t].kind = "RateLimit"
            /\ retry_count[t] = 0 /\ http[t] = 0
            => /\ records[t] = 0
               /\ result[t].code = "1006" /\ result[t].status = 429
               /\ result[t].retry_after > 0)

\* C7 witness: max_retries = 0, the per-second window of the category full,
\* and the call failed with 1006/429 and a wait > 0, nothing sent or recorded
C7_Witness ==
    \E t \in Threads :
        /\ pc[t] = "done" /\ max_retries = 0 /\ enforce_rate_limit
        /\ SecondFull(Category)
        /\ result[t].kind = "RateLimit" /\ result[t].code = "1006"
        /\ result[t].status = 429 /\ result[t].retry_after > 0
        /\ http[t] = 0 /\ records[t] = 0

\* C8: a 429 response carrying X-RateLimit-Reset = R at a retry count below
\* max_retries makes the call sleep max(0, R - now) and then start over with
\* the same request and retry count + 1; a 429 at retry count max_retries
\* fails the call with the rate-limit error; so a call whose max_retries + 1
\* requests were all answered 429 slept max_retries times before failing
\* (max_retries = 1: one sleep, two requests, then the error).
C8_Retry429 ==
    /\ [][\A t \in Threads :
            /\ pc[t] = "status" /\ response[t].status = 429 /\ pc'[t] # "status"
               => /\ retry_count[t] < max_retries /\ response[t].reset.kind = "int"
                     => /\ pc'[t] = "sleep"
                        /\ wait_time'[t] = Max(0, response[t].reset.value - now)
                        /\ wake'[t] = now + wait_time'[t]
                        /\ sleeps'[t] = sleeps[t] + 1
                        /\ http'[t] = http[t]
                  /\ retry_count[t] = max_retries
                     => /\ pc'[t] = "done"
                        /\ result'[t].kind = "RateLimit"
                        /\ result'[t].code = "1006" /\ result'[t].status = 429
            /\ pc[t] = "sleep" /\ pc'[t] # "sleep"
               => /\ now >= wake[t]
                  /\ pc'[t] = "auth"
                  /\ retry_count'[t] = retry_count[t] + 1
                  /\ method'[t] = method[t]]_vars
    /\ [](\A t \in Threads :
            /\ pc[t] = "done" /\ result[t].kind = "RateLimit"
            /\ http[t] = max_retries + 1
            => sleeps[t] = max_retries /\ retry_count[t] = max_retries)

\* C8 witness: max_retries > 0, every request answered 429, the call slept
\* for a second after a 429 and failed with the rate-limit error
C8_Witness ==
    \E t \in Threads :
        /\ pc[t] = "done" /\ max_retries > 0
        /\ result[t].kind = "RateLimit"
        /\ http[t] = max_retries + 1 /\ sleeps[t] = max_retries
        /\ result[t].retry_after = OneSecond

\* C9: when a response arrives with both X-RateLimit-Remaining and
\* X-RateLimit-Reset parseable, then, whatever its status, the limiter's
\* remaining and reset time of the request's category equal the header
\* values before the status is acted on; when a header is absent or does not
\* parse, they are left as they were; and no step ever changes the other
\* category's remaining or reset time.
C9_HeadersFeedLimiter ==
    [][\A t \in Threads :
          LET c == Category
              r == response'[t] IN
          /\ pc[t] = "inflight" /\ pc'[t] = "status"
             => /\ r.status \in Statuses
                /\ r.remaining.kind = "int" /\ r.reset.kind = "int"
                   => /\ remaining'[c] = r.remaining.value
                      /\ reset_time'[c] = r.reset.value
                /\ r.remaining.kind # "int" \/ r.reset.kind # "int"
                   => /\ remaining'[c] = remaining[c]
                      /\ reset_time'[c] = reset_time[c]
          /\ \A o \in ApiCategory \ {c} :
                remaining'[o] = remaining[o] /\ reset_time'[o] = reset_time[o]]_vars

\* C9 witness: a 500 response with both headers, not yet acted on, and the
\* limiter already holding remaining = 0 and the header's reset time
C9_Witness ==
    \E t \in Threads :
        /\ pc[t] = "status" /\ response[t].status = 500
        /\ response[t].remaining = Numeral(0)
        /\ response[t].reset = Numeral(now + OneSecond)
        /\ remaining[Category] = 0
        /\ reset_time[Category] = now + OneSecond

\* C10: when a call starts without an access token or API host and
\* authenticate() does not obtain one, the call ends there: with the
\* authentication error of code 1000 when authenticate() returned False (an
\* exception of authenticate() leaves the call as it is), no request sent
\* to the API, none recorded, and the limiter's windows and server-reported
\* state unchanged.
C10_AuthenticationFails ==
    /\ [][\A t \in Threads :
            /\ pc[t] = "auth" /\ pc'[t] # "auth"
            /\ session.access_token = None \/ session.api_server = NoServer
            /\ session'.access_token = None \/ session'.api_server = NoServer
            => /\ pc'[t] = "done"
               /\ \/ result'[t] = QuestradeGeneralError("1000", None)
                  \/ result'[t] = Unhandled("ConnectionError")
               /\ http'[t] = 0 /\ records'[t] = 0
               /\ UNCHANGED limiter]_vars
    /\ [](\A t \in Threads :
            pc[t] = "done" /\ result[t].code = "1000"
              => /\ result[t] = QuestradeGeneralError("1000", None)
                 /\ auths[t] = 1 /\ http[t] = 0 /\ records[t] = 0
                 /\ session.access_token = None)

\* C10 witness: a call that ended with the authentication error after one
\* authenticate() call, nothing sent or recorded
C10_Witness ==
    \E t \in Threads :
        /\ pc[t] = "done"
        /\ result[t] = QuestradeGeneralError("1000", None)
        /\ auths[t] = 1 /\ http[t] = 0 /\ records[t] = 0
        /\ second_history[Category] = <<>>

\* C11 as stated: after every authenticate() that returned True, the
\* session in memory is the provider's answer and the token file holds the
\* same values, the refresh token in both being the rotated one the
\* provider accepts next.
C11_MemoryMatchesFile ==
    returned = "True"
        => /\ session = TokenResponse(provider)
           /\ token_file.state = "saved"
           /\ token_file.data = session
           /\ token_file.data.refresh_token = provider

\* C12 as stated: every call that ends in a failure ends in one of the typed
\* errors (authentication and general errors are QuestradeGeneralError, then
\* order and rate-limit errors); no other exception leaves _make_request.
C12_TypedErrorsOnly ==
    \A t \in Threads :
        pc[t] = "done" => result[t].kind \in {"ok", "General", "Order", "RateLimit"}

\* the call of thread t ended on a response of status >= 400 other than 429
ErrorResponse(t) ==
    /\ pc[t] = "done"
    /\ response[t].status # None
    /\ response[t].status >= 400
    /\ response[t].status # 429

\* C13 as stated: an error response whose body parses as JSON raises the
\* order error exactly when the body has orderId and orders, and otherwise
\* the general error with the body's code and the HTTP status.
C13_ParsedErrorBody ==
    \A t \in Threads :
        ErrorResponse(t) /\ response[t].body.kind \in {"json", "orderId", "order", "array"}
            => result[t] =
                 IF response[t].body.kind = "order"
                 THEN QuestradeOrderError(ErrorCode(response[t].body), response[t].status)
                 ELSE QuestradeGeneralError(ErrorCode(response[t].body), response[t].status)

\* C14 as stated: an error response whose body is no JSON raises the general
\* error chosen by the status, 1001 for 404, 1002 for 400 and 1021 for the
\* rest, with the HTTP status.
C14_UnparsedErrorBody ==
    \A t \in Threads :
        ErrorResponse(t) /\ response[t].body.kind = "garbage"
            => result[t] =
                 QuestradeGeneralError(
                     CASE response[t].status = 404 -> "1001"
                       [] response[t].status = 400 -> "1002"
                       [] OTHER -> "1021",
                     response[t].status)

Cached(table, symbol, interval) ==
    {r \in table : r.symbol = symbol /\ r.interval = interval}

\* the cursor of (symbol, interval): the latest end time the store holds
Cursor(symbol, interval) ==
    CHOOSE w \in {r.end.wall : r \in Cached(candles, symbol, interval)} :
        \A r \in Cached(candles, symbol, interval) : r.end.wall <= w

\* the age of that cursor on the local clock
Age(symbol, interval) == clock - Cursor(symbol, interval)

\* the step is a get_candles call that went past the symbol lookup
CandleStep ==
    /\ clock' = clock
    /\ candle_call'.outcome # "none"
    /\ candle_call'.outcome = "raised" => candle_call'.fetched # <<>>

\* the call made one candle request, from start to the local time
OneFetch(call, start) ==
    /\ Len(call.fetched) = 1
    /\ call.fetched[1].start_time = At(start)
    /\ call.fetched[1].end_time = At(clock)
    /\ call.fetched[1].interval = call.interval

\* the rows the candles of the call's response make
Written(call) ==
    { [symbol |-> call.symbol, interval |-> call.interval,
       start |-> call.candles_response[i].start,
       end |-> call.candles_response[i].end,
       close |-> call.candles_response[i].close] :
          i \in 1..Len(call.candles_response) }

\* what the call returned is the rows of the table, in ascending start order
ReturnsSeries(call, table) ==
    /\ call.outcome = "returned"
    /\ Len(call.all_candles_data) = Cardinality(Cached(table, call.symbol, call.interval))
    /\ {call.all_candles_data[i] : i \in 1..Len(call.all_candles_data)}
           = Cached(table, call.symbol, call.interval)
    /\ \A i \in 1..Len(call.all_candles_data), j \in 1..Len(call.all_candles_data) :
           i < j => call.all_candles_data[i].start < call.all_candles_data[j].start

\* C16: the table never holds two rows with one (symbol, interval, start);
\* a call that merges a response leaves each candle of the response in the
\* table as the row of its key, leaves every row of another key as it was
\* and adds nothing else; and merging the response the call before it has
\* merged changes no row.
C16_OneRowPerKey ==
    /\ [](\A r \in candles, q \in candles :
            r.symbol = q.symbol /\ r.interval = q.interval /\ r.start = q.start
                => r = q)
    /\ [][CandleStep /\ candle_call'.outcome = "returned"
                     /\ candle_call'.fetched # <<>>
            => /\ Written(candle_call') \subseteq candles'
               /\ candles' \subseteq candles \cup Written(candle_call')
               /\ \A r \in candles :
                    (\A w \in Written(candle_call') :
                        ~(w.symbol = r.symbol /\ w.interval = r.interval
                            /\ w.start = r.start))
                        => r \in candles'
               /\ (/\ candle_call.outcome = "returned"
                   /\ candle_call.fetched # <<>>
                   /\ candle_call.symbol = candle_call'.symbol
                   /\ candle_call.interval = candle_call'.interval
                   /\ candle_call.candles_response = candle_call'.candles_response)
                     => candles' = candles]_vars

\* C16 witness: a call merged two candles into a table of two rows and the
\* table holds two rows, those of the response: both keys were there
C16_Witness ==
    /\ candle_call.outcome = "returned"
    /\ candle_call.fetched # <<>>
    /\ candle_call.rows_before = 2
    /\ Len(candle_call.candles_response) = 2
    /\ candles = Written(candle_call)
    /\ Cardinality(candles) = 2

\* C17: a call without force_refresh that finds no row of (symbol,
\* interval) makes one candle request, from days before the local time to
\* the local time, and every candle of the response is a row afterwards;
\* the same call made again right after it, with rows then cached and the
\* cursor less than a day old, makes no candle request.
C17_NoDataFetchesOnce ==
    [][CandleStep /\ ~candle_call'.force_refresh
         => /\ Cached(candles, candle_call'.symbol, candle_call'.interval) = {}
                => /\ OneFetch(candle_call', clock - candle_call'.days * OneDay)
                   /\ candle_call'.outcome = "returned"
                        => Written(candle_call') \subseteq candles'
            /\ (/\ candle_call.state = "NoData"
                /\ candle_call.outcome = "returned"
                /\ candle_call.symbol = candle_call'.symbol
                /\ candle_call.interval = candle_call'.interval
                /\ candle_call.days = candle_call'.days
                /\ Cached(candles, candle_call'.symbol, candle_call'.interval) # {}
                /\ Age(candle_call'.symbol, candle_call'.interval) < OneDay)
                  => candle_call'.fetched = <<>>]_vars

\* C17 witness: a call for two days that found no row, requested the two
\* days before the local time and stored the two candles it got
C17_Witness ==
    /\ candle_call.state = "NoData"
    /\ candle_call.outcome = "returned"
    /\ candle_call.days = 2
    /\ OneFetch(candle_call, clock - 2 * OneDay)
    /\ Len(candle_call.candles_response) = 2
    /\ candle_call.rows_before = 0
    /\ candles = Written(candle_call)

\* C18 as stated: with rows cached and no force_refresh, a cursor within
\* one day of the local time means no candle request and an unchanged
\* table, and a candle request is made only when the cursor is more than
\* one day old.
C18_FreshWithinOneDay ==
    [][CandleStep /\ ~candle_call'.force_refresh
                  /\ Cached(candles, candle_call'.symbol, candle_call'.interval) # {}
         => /\ Age(candle_call'.symbol, candle_call'.interval) <= OneDay
                => candle_call'.fetched = <<>> /\ candles' = candles
            /\ candle_call'.fetched # <<>>
                => Age(candle_call'.symbol, candle_call'.interval) > OneDay]_vars

\* C18 amended: with rows cached and no force_refresh, a cursor less than
\* one day old on the local clock means no candle request, an unchanged
\* table and the cached rows returned; a candle request is made only when
\* the cursor is one day old or older.
C18_FreshUnderOneDay ==
    [][CandleStep /\ ~candle_call'.force_refresh
                  /\ Cached(candles, candle_call'.symbol, candle_call'.interval) # {}
         => /\ Age(candle_call'.symbol, candle_call'.interval) < OneDay
                => /\ candle_call'.fetched = <<>>
                   /\ candles' = candles
                   /\ ReturnsSeries(candle_call', candles)
            /\ candle_call'.fetched # <<>>
                => Age(candle_call'.symbol, candle_call'.interval) >= OneDay]_vars

\* C18 witness: a call answered from the cache when the cursor was half a
\* day old
C18_Witness ==
    /\ candle_call.state = "Fresh"
    /\ candle_call.outcome = "returned"
    /\ candle_call.fetched = <<>>
    /\ candle_call.rows_before >= 1
    /\ Cached(candles, candle_call.symbol, candle_call.interval) # {}
    /\ Age(candle_call.symbol, candle_call.interval) = 1

\* C19: with rows cached, no force_refresh and a cursor a day old or older,
\* the call makes one candle request, from the cursor to the local time
\* whatever days is, every candle of the response is a row afterwards and
\* the call returns the rows of (symbol, interval) in ascending start
\* order; a cursor two days old makes it a request of two days.
C19_StaleFetchesDelta ==
    [][CandleStep /\ ~candle_call'.force_refresh
                  /\ Cached(candles, candle_call'.symbol, candle_call'.interval) # {}
                  /\ Age(candle_call'.symbol, candle_call'.interval) >= OneDay
         => /\ OneFetch(candle_call', Cursor(candle_call'.symbol, candle_call'.interval))
            /\ candle_call'.outcome = "returned"
                => /\ Written(candle_call') \subseteq candles'
                   /\ ReturnsSeries(candle_call', candles')
            /\ Age(candle_call'.symbol, candle_call'.interval) = 2 * OneDay
                => candle_call'.fetched[1].end_time.wall
                       - candle_call'.fetched[1].start_time.wall = 2 * OneDay]_vars

\* C19 witness: a call for one day that found the cursor two days old,
\* requested those two days and returned the rows with the new candle
C19_Witness ==
    /\ candle_call.state = "Stale"
    /\ candle_call.outcome = "returned"
    /\ candle_call.days = 1
    /\ OneFetch(candle_call, clock - 2 * OneDay)
    /\ candle_call.candles_response # <<>>
    /\ Len(candle_call.all_candles_data) = 2

\* C20: a call with force_refresh makes one candle request, from days
\* before the local time to the local time, whatever the table holds and
\* whatever call came before it, and every candle of the response is a row
\* afterwards.
C20_ForceRefreshFetches ==
    [][CandleStep /\ candle_call'.force_refresh
         => /\ OneFetch(candle_call', clock - candle_call'.days * OneDay)
            /\ candle_call'.outcome = "returned"
                => /\ Written(candle_call') \subseteq candles'
                   /\ ReturnsSeries(candle_call', candles')]_vars

\* C20 witness: a forced call for two days made while the cursor was less
\* than a day old: it requested the two days, got no candle and returned
\* the rows that were cached
C20_Witness ==
    /\ candle_call.state = "ForceRefresh"
    /\ candle_call.outcome = "returned"
    /\ candle_call.days = 2
    /\ OneFetch(candle_call, clock - 2 * OneDay)
    /\ candle_call.candles_response = <<>>
    /\ Cached(candles, candle_call.symbol, candle_call.interval) # {}
    /\ Age(candle_call.symbol, candle_call.interval) < OneDay

\* ----- the windows of the limiter

\* window h after one more entry x, the window holding at most n entries
Slid(h, x, n) ==
    IF Len(h) = n THEN SubSeq(h, 2, Len(h)) \o <<x>> ELSE h \o <<x>>

\* C23: no window ever holds more entries than its limit; the append of a
\* call's record_request, whichever thread makes it and whatever the other
\* thread has done since the clock was read, puts one entry at the end of
\* both windows of the category and drops the oldest entry of a window that
\* was full, nothing else; and no step changes a window in another way.
C23_WindowsBounded ==
    /\ [](\A c \in ApiCategory :
            /\ Len(second_history[c]) <= RATE_LIMITS(c)[1]
            /\ Len(hour_history[c]) <= RATE_LIMITS(c)[2])
    /\ [][/\ \A t \in Threads :
               records'[t] = records[t] + 1
                 => /\ second_history'[Category] =
                         Slid(second_history[Category], current_time[t],
                              RATE_LIMITS(Category)[1])
                    /\ hour_history'[Category] =
                         Slid(hour_history[Category], current_time[t],
                              RATE_LIMITS(Category)[2])
           /\ \A c \in ApiCategory :
               second_history'[c] # second_history[c]
                       \/ hour_history'[c] # hour_history[c]
                 => \E x \in 0..now :
                      /\ second_history'[c] =
                           Slid(second_history[c], x, RATE_LIMITS(c)[1])
                      /\ hour_history'[c] =
                           Slid(hour_history[c], x, RATE_LIMITS(c)[2])]_vars

\* C23 witness: both threads have recorded their request, the per-second
\* window is full and the per-hour window holds more than it: an entry was
\* dropped from the per-second window
C23_Witness ==
    /\ \A t \in Threads : records[t] = 1
    /\ SecondFull(Category)
    /\ Len(hour_history[Category]) > RATE_LIMITS(Category)[1]

\* C24: what wait_if_needed returns is never negative, and it is 0 when the
\* remaining count the server reported is positive and neither window of
\* the category is full.
C24_WaitNeverNegative ==
    \A c \in ApiCategory :
        Waited(c)
            => /\ waited.wait_time >= 0
               /\ remaining[c] > 0 /\ ~SecondFull(c) /\ ~HourFull(c)
                    => waited.wait_time = 0

\* C24 witness: remaining is 0 and the reset time has passed; the call
\* returned 0
C24_Witness ==
    \E c \in ApiCategory :
        /\ Waited(c)
        /\ remaining[c] = 0
        /\ reset_time[c] < now
        /\ waited.wait_time = 0

\* C27 as stated: while threads record requests of one category, the
\* timestamps of each window never decrease from its oldest entry to its
\* newest.
C27_WindowsInIssueOrder ==
    \A c \in ApiCategory :
        /\ \A i \in 1..Len(second_history[c]), j \in 1..Len(second_history[c]) :
             i < j => second_history[c][i] <= second_history[c][j]
        /\ \A i \in 1..Len(hour_history[c]), j \in 1..Len(hour_history[c]) :
             i < j => hour_history[c][i] <= hour_history[c][j]

\* ----- get_category_for_endpoint

\* the path without its leading '/' characters
Stripped(path) ==
    LET k == CHOOSE k \in 0..Len(path) :
                /\ \A i \in 1..k : path[i] = ""
                /\ k < Len(path) => path[k + 1] # ""
    IN SubSeq(path, k + 1, Len(path))

\* the path, its leading '/' characters aside, starts with v1/markets or
\* v1/symbols
MarketPath(path) ==
    /\ Len(Stripped(path)) >= 2
    /\ Stripped(path)[1] = "v1"
    /\ Stripped(path)[2] \in {"markets", "marketsx", "symbols"}

\* C25: get_category_for_endpoint returns MARKET for the paths that, their
\* leading '/' aside, start with v1/markets or v1/symbols and ACCOUNT for
\* every other path, whatever the limiter holds when the call is made: the
\* category is a function of the path alone; and the call changes nothing
\* of the limiter.
C25_CategoryOfPath ==
    /\ [](categorized # NotCategorized
            => categorized.category =
                   IF MarketPath(categorized.path) THEN MARKET ELSE ACCOUNT)
    /\ [][categorized' # categorized
            => /\ UNCHANGED limiter
               /\ categorized'.path = endpoint]_vars

\* C25 witness: the path //v1/marketsx was given MARKET after the limiter
\* had recorded a request and taken new limits
C25_Witness ==
    /\ categorized = [path |-> <<"", "v1", "marketsx">>, category |-> MARKET]
    /\ second_history[MARKET] # <<>>
    /\ remaining[MARKET] = 0

\* C28: in every dispatch the number of requests recorded in the limiter
\* equals the number of HTTP requests issued, for every value of the method
\* argument and whether or not enforcement is on: a call that has ended has
\* recorded exactly as many requests as it sent.
C28_RecordedEqualsSent ==
    \A t \in Threads : pc[t] = "done" => records[t] = http[t]

\* C30: with enforce_rate_limit off a call never consults wait_if_needed,
\* passes the throttle check without sleeping and without an error (every
\* sleep it makes follows a request of its own, and so does every rate-limit
\* error); it still records each request before sending it, and a response's
\* parseable headers still become the limiter's remaining and reset time.
C30_EnforcementOff ==
    /\ [](~enforce_rate_limit
            => \A t \in Threads :
                  /\ consults[t] = 0
                  /\ sleeps[t] <= http[t]
                  /\ result[t].kind = "RateLimit" => http[t] >= 1
                  /\ http[t] <= records[t])
    /\ [][~enforce_rate_limit
            => \A t \in Threads :
                  /\ pc[t] = "gate" /\ pc'[t] # "gate"
                     => /\ pc'[t] = "record"
                        /\ sleeps'[t] = sleeps[t]
                        /\ result'[t] = result[t]
                  /\ http'[t] = http[t] + 1 => records[t] = http[t] + 1
                  /\ /\ pc[t] = "inflight" /\ pc'[t] = "status"
                     /\ response'[t].remaining.kind = "int"
                     /\ response'[t].reset.kind = "int"
                     => /\ remaining'[Category] = response'[t].remaining.value
                        /\ reset_time'[Category] = response'[t].reset.value]_vars

\* C30 witness: with enforcement off a request is in flight, recorded and
\* sent without a consultation or a sleep, while the server-reported state
\* asks for a wait
C30_Witness ==
    \E t \in Threads :
        /\ ~enforce_rate_limit
        /\ pc[t] = "inflight"
        /\ consults[t] = 0 /\ sleeps[t] = 0
        /\ records[t] = 1 /\ http[t] = 1
        /\ remaining[Category] = 0 /\ reset_time[Category] > now
        /\ wait_if_needed(Category) > 0

C22_HitsMakeNoSearch ==
    [][symbol_call' # symbol_call /\ symbol_call' # NoSymbolCall
        => LET name == symbol_call'.symbol
               cached == name \in symbol_cache
               stored == \E r \in symbols : r.symbol = name IN
           /\ cached \/ stored
                => /\ symbol_call'.searches = 0
                   /\ symbol_call'.raised = "none"
                   /\ symbols' = symbols
           /\ cached
                => /\ symbol_call'.printed = "cache"
                   /\ symbol_cache' = symbol_cache
           /\ ~cached /\ stored
                => /\ symbol_call'.printed = "database"
                   /\ symbol_cache' = symbol_cache \cup {name}
           /\ ~cached /\ ~stored => symbol_call'.searches = 1]_vars

\* C22 witness: AAPL, its row saved by a search for AAP, was answered from
\* the table without a search and is in the cache now
C22_Witness ==
    /\ symbol_call = [symbol |-> "AAPL", printed |-> "database",
                      searches |-> 0, raised |-> "none", returns |-> "AAPL"]
    /\ "AAPL" \in symbol_cache
    /\ symbols = {[symbol |-> "AAPL", symbol_id |-> 1]}

\* the symbol lookup or the candle request of the call raised
RequestFailed(call) == call.outcome = "raised"

\* C21: when the cursor of (symbol, interval) is a text that is no
\* timestamp, a call without force_refresh takes the cache as stale, makes
\* one candle request, from that text to the local time, and does not
\* raise: unless the request itself fails, the call returns.
C21_UnparseableCursorIsStale ==
    [][(/\ CandleStep
        /\ ~candle_call'.force_refresh
        /\ Cached(candles, candle_call'.symbol, candle_call'.interval) # {}
        /\ last_end(candles, candle_call'.symbol, candle_call'.interval).kind = "text")
         => /\ candle_call'.state = "Stale"
            /\ Len(candle_call'.fetched) = 1
            /\ candle_call'.fetched[1].start_time = Unparseable
            /\ candle_call'.fetched[1].end_time = At(clock)
            /\ ~RequestFailed(candle_call') => candle_call'.outcome = "returned"]_vars

\* the table with every record of the batch written
RECURSIVE AllWritten(_, _, _)
AllWritten(op, table, batch) ==
    IF batch = <<>> THEN table
    ELSE AllWritten(op, Insert(op, table, Head(batch)), Tail(batch))

\* C26: a batch write of get_candles, get_updated_candles or
\* bulk_insert_symbols is all or nothing: while the batch is being written
\* and after the writing of one of its records has failed, the committed
\* table is what it was when the batch began (and after a failed
\* bulk_insert_symbols the in-memory cache is what it was); after the commit
\* it is that table with every record of the batch written; and what
\* another connection reads is one of these two, never a part of the batch.
C26_BatchAllOrNothing ==
    /\ [](txn.state \in {"open", "failed"} => Store(txn.op) = txn.base)
    /\ [](txn.state = "failed" /\ txn.op = "bulk_insert_symbols"
            => symbol_cache = txn.cache)
    /\ [](txn.state = "committed"
            => Store(txn.op) = AllWritten(txn.op, txn.base, txn.batch))
    /\ [][seen' # seen /\ txn.op # "none"
            => LET got == IF txn.op = "bulk_insert_symbols"
                          THEN seen'.symbols ELSE seen'.candles IN
               got = IF txn.state = "committed"
                     THEN AllWritten(txn.op, txn.base, txn.batch)
                     ELSE txn.base]_vars

\* C26 witness: bulk_insert_symbols of two symbols failed at the second
\* one, after the first was written; the table holds the one row it held
\* before, the cache is as it was, and the other connection has read that
\* table since
C26_Witness ==
    /\ txn.op = "bulk_insert_symbols" /\ txn.state = "failed"
    /\ Len(txn.batch) = 2 /\ Len(txn.todo) = 1
    /\ txn.batch[1].symbol = "AAPL"
    /\ symbols = {[symbol |-> "MSFT", symbol_id |-> 2]}
    /\ symbol_cache = {"MSFT"}
    /\ seen.symbols = symbols

\* the step is an authenticate() call that failed: it found no refresh
\* token to present, or the provider refused the one it presented
FailedAuthenticate ==
    /\ returned' \in {"False", "raise"}
    /\ presented' = None \/ returned' = "False"

\* C31: an authenticate() call that fails, no refresh token being
\* obtainable from the token file or the provider answering the exchange
\* with a status other than 200, returns False and raises nothing, leaves
\* access_token, token_type, api_server and expires_in as they were and
\* writes nothing to the token file.
C31_FailedAuthenticateReturnsFalse ==
    [][FailedAuthenticate
        => /\ returned' = "False"
           /\ session'.access_token = session.access_token
           /\ session'.token_type = session.token_type
           /\ session'.api_server = session.api_server
           /\ session'.expires_in = session.expires_in
           /\ token_file' = token_file]_vars

\* the step is a get_symbol_info call for a name that is neither in the
\* cache nor a symbol of the table
MissStep ==
    /\ symbol_call' # symbol_call /\ symbol_call' # NoSymbolCall
    /\ symbol_call'.symbol \notin symbol_cache
    /\ ~(\E r \in symbols : r.symbol = symbol_call'.symbol)

\* C32: on a miss of the cache and of the table get_symbol_info(name)
\* makes one symbol search; when the search has a match the call returns
\* the first match (the symbol of that name or a longer one starting with
\* it), its row is in the table afterwards, every row that shares neither
\* key with it is kept, nothing else is added, and the requested name is in
\* the cache; when the search fails or has no match the call raises and
\* the table and the cache are as they were.
C32_MissSearchesOnce ==
    [][MissStep
        => LET name == symbol_call'.symbol
               first == [symbol |-> symbol_call'.returns,
                         symbol_id |-> SymbolId(symbol_call'.returns)] IN
           /\ symbol_call'.searches = 1
           /\ symbol_call'.printed = "api"
           /\ symbol_call'.raised = "none"
                => /\ symbol_call'.returns \in {name} \cup Longer(name)
                   /\ first \in symbols'
                   /\ symbols' \ {first}
                        = {q \in symbols : q.symbol_id # first.symbol_id
                                            /\ q.symbol # first.symbol}
                   /\ symbol_cache' = symbol_cache \cup {name}
           /\ symbol_call'.raised # "none"
                => /\ symbol_call'.returns = "none"
                   /\ symbols' = symbols
                   /\ symbol_cache' = symbol_cache]_vars

\* C32 witness: AAP, in neither the cache nor the table, was searched once;
\* the first match was AAPL, whose row is in the table next to the row of
\* MSFT, and AAP is in the cache
C32_Witness ==
    /\ symbol_call = [symbol |-> "AAP", printed |-> "api", searches |-> 1,
                      raised |-> "none", returns |-> "AAPL"]
    /\ symbols = {[symbol |-> "AAPL", symbol_id |-> 1],
                  [symbol |-> "MSFT", symbol_id |-> 2]}
    /\ "AAP" \in symbol_cache

\* a get_symbol_info call for a name the cache held when it was last
\* emptied
AfterInvalidation ==
    /\ symbol_call' # symbol_call /\ symbol_call' # NoSymbolCall
    /\ symbol_call'.symbol \in invalidated
    /\ symbol_call'.symbol \notin symbol_cache

\* C33: clear_symbol_cache empties the cache and leaves the table as it is,
\* and the next get_symbol_info of a name that was resolved before the cache
\* was emptied is answered from the table, with no search
C33_InvalidatedServedFromStore ==
    /\ [][invalidated' \ invalidated # {}
            => symbol_cache' = {} /\ symbols' = symbols]_vars
    /\ [][AfterInvalidation
            => /\ symbol_call'.searches = 0
               /\ symbol_call'.printed = "database"
               /\ symbol_call'.raised = "none"]_vars

\* how often update_stale_symbols searched a name
TimesSearched(n) ==
    Cardinality({i \in 1..Len(stale_call.searched) : stale_call.searched[i] = n})

\* C34: when update_stale_symbols has returned, each symbol it selected as
\* stale was searched exactly once and has a row that is no longer stale,
\* and the rows it did not select are in the table as they were
C34_StaleRefetchedOnce ==
    stale_call.state = "returned"
        => /\ \A n \in stale_call.selected :
                /\ TimesSearched(n) = 1
                /\ \E r \in symbols : r.symbol = n
                /\ n \notin stale
           /\ \A r \in stale_call.before :
                r.symbol \notin stale_call.selected
                    => r \in symbols /\ r.symbol \notin stale

\* C35: when update_stale_symbols has returned or has raised what a lookup
\* raised, every symbol that had a row when it was called has a row
C35_NoSymbolLost ==
    stale_call.state \in {"returned", "raised"}
        => \A r \in stale_call.before : \E q \in symbols : q.symbol = r.symbol

\* two rows that share a symbol id or a symbol name
Conflict(p, q) == p.symbol_id = q.symbol_id \/ p.symbol = q.symbol

\* C36: whatever get_symbol_info, bulk_insert_symbols and
\* update_stale_symbols have done, no two rows of table symbols share a
\* symbol id and no two share a symbol name; and when a row is written,
\* every row that was there and conflicts with it on either key is gone
C36_KeysUnique ==
    /\ [](\A p, q \in symbols : Conflict(p, q) => p = q)
    /\ [][\A r \in symbols' \ symbols :
            \A q \in symbols : Conflict(q, r) => q \notin symbols']_vars

\* a record took the place of two rows, one with its name and one with its id
C36_Witness ==
    /\ symbols = {[symbol |-> "AAPL", symbol_id |-> 2]}
    /\ symbol_cache = {"AAPL", "MSFT"}
    /\ stale_call = NoStaleCall

\* a get_updated_candles call that had its symbol
UpdatedCall == candle_call' # NoCandleCall /\ candle_call'.state # "none"

\* the rows of a response
ResponseRows(c) ==
    {Row(c.symbol, c.interval, c.candles_response[i]) :
        i \in 1..Len(c.candles_response)}

\* C37: get_updated_candles with its symbol resolved makes exactly one
\* candle request whatever the age of the rows there are, from the greatest
\* 'end' stored for (symbol, interval) to now, or from ninety days before
\* now to now when nothing is stored; when the request is answered the
\* candles of the answer are upserted and the call returns every stored
\* candle of (symbol, interval) in ascending order of start
C37_UpdatedFetchesOnce ==
    [][UpdatedCall =>
        LET c == candle_call'
            series == Series(candles, c.symbol, c.interval)
        IN
        /\ Len(c.fetched) = 1
        /\ c.fetched[1].end_time = At(clock)
        /\ c.fetched[1].start_time =
              IF series # {}
              THEN At(Cursor(c.symbol, c.interval))
              ELSE At(clock - NinetyDays)
        /\ c.outcome \in {"returned", "raised"}
        /\ c.outcome = "raised" => candles' = candles
        /\ c.outcome = "returned" =>
              /\ candles' = {q \in candles :
                                \A r \in ResponseRows(c) : ~SameKey(q, r)}
                                \cup ResponseRows(c)
              /\ {c.all_candles_data[i] : i \in 1..Len(c.all_candles_data)}
                    = Series(candles', c.symbol, c.interval)
              /\ Len(c.all_candles_data)
                    = Cardinality(Series(candles', c.symbol, c.interval))
              /\ \A i, j \in 1..Len(c.all_candles_data) :
                    i < j => c.all_candles_data[i].start
                                < c.all_candles_data[j].start]_vars

\* two candles were stored and fresh, and a call fetched from the cursor
\* and replaced one of them
C37_Witness ==
    /\ candle_call.state = "DataExists"
    /\ candle_call.outcome = "returned"
    /\ candle_call.rows_before = 2
    /\ Len(candle_call.candles_response) = 1
    /\ Len(candle_call.all_candles_data) = 2
    /\ candle_call.fetched[1].start_time = candle_call.fetched[1].end_time

\* the stored candles a search asks for: those of its symbol and interval
\* that start on or after the start date and before the day after the end
\* date
Wanted(c) ==
    {r \in candles :
        /\ r.symbol = c.symbol /\ r.interval = c.interval
        /\ c.start_date = <<>> \/ r.start >= c.start_date[1] * OneDay
        /\ c.end_date = <<>> \/ r.start < (c.end_date[1] + 1) * OneDay}

Elapsed(c) == (c.end_time - c.local_offset) - (c.last_end - c.last_offset)

\* C39: the days get_candles counts between a cursor that is not in the
\* future and now are the whole days that have passed between the two
\* instants, whatever the UTC offset of the stored cursor and of the local
\* zone, so that the cache counts as Stale exactly when a day has passed
C39_AgeIsElapsedTime ==
    (age_call.computed /\ Elapsed(age_call) >= 0)
        => /\ age_call.days_diff = Elapsed(age_call) \div OneDay
           /\ (age_call.days_diff > 0) = (Elapsed(age_call) >= OneDay)

====
